---- MODULE Spec2Model ----
(***************************************************************************)
(* A model of the DAP aggregation and collection core of daphne:           *)
(*   - the ReportsProcessed durable object (replay index),                 *)
(*   - DaphneWorker::try_put_agg_share_span (the commit of a job),         *)
(*   - DaphneWorker::initialize_reports,                                   *)
(*   - the MockAggregator aggregate store,                                 *)
(*   - the Leader's process() loop (aggregation jobs, collect jobs),       *)
(*   - VdafConfig::handle_agg_job_resp.                                    *)
(* Each part has its own specification over the shared variables.          *)
(***************************************************************************)
EXTENDS Integers, Sequences, FiniteSets, TLC

\* ------------------------------------------------------------------ bounds

NumReports == 3
NumShards == 2
NumJobs == 2
TimePrecision == 2
MaxReqLen == 2
MaxShareCount == 3
AggRate == 2
MaxCollectJobs == 2
MinBatchSize == 1
MaxRound == 2
MaxInputShares == 3
MaxUploads == 3
MaxExtensions == 2
MaxOrdinal == 11
MaxBatchTime == 6
MaxPrecision == 3
MAX_KEYS == 128
EXTENSION_TASKPROV == 65280

ReportIds == 1..NumReports
Shards == 0..(NumShards - 1)
Jobs == 1..NumJobs

\* A report's metadata is fixed by its id: its time decides its bucket, and
\* (id, time) decide the ReportsProcessed instance that tracks it.
ReportTime(r) == r - 1

\* DapBatchBucket::TimeInterval{batch_window}: the window start of a report time.
BatchWindow(t) == t - (t % TimePrecision)

BucketOf(r) == BatchWindow(ReportTime(r))

Buckets == {BucketOf(r) : r \in ReportIds}

\* The ReportsProcessed instance named by durable_name_report_store for a
\* report: a shard derived from the report id.
ShardOf(r) == r % NumShards

Range(s) == {s[i] : i \in 1..Len(s)}

RECURSIVE SetToSeq(_)
SetToSeq(S) ==
    IF S = {} THEN <<>>
    ELSE LET x == CHOOSE y \in S : \A z \in S : y <= z
         IN <<x>> \o SetToSeq(S \ {x})

SeqsUpTo(S, n) == UNION {[1..k -> S] : k \in 0..n}

VARIABLES
    processed,    \* ReportsProcessed storage: instance -> set of ids stored "processed/<id>" = true
    aggShare,     \* AggregateStore: bucket -> (report id -> number of merged output shares)
    collected,    \* AggregateStore: bucket -> collected flag
    doLog,        \* the last two mark_aggregated requests handled, with their responses
    job,          \* try_put_agg_share_span calls in flight
    ini,          \* initialize_reports calls in flight
    mock,         \* MockAggregator::agg_store
    leader,       \* the Leader's process() invocation
    pending,      \* reports-pending queue
    collectJobs,  \* collect job queue
    helper,       \* the Helper's buckets marked collected
    resp          \* handle_agg_job_resp: inputs and result

vars == <<processed, aggShare, collected, doLog, job, ini, mock, leader, pending,
          collectJobs, helper, resp>>

\* ------------------------------------------------- ReportsProcessed (DO)

\* CheckedReplays::default
CheckedReplaysDefault == [kind |-> "AllFresh", ids |-> <<>>]

add_replay_drop(acc, id) == [kind |-> "SomeReplayed", ids |-> <<id>>]

\* CheckedReplays::add_replay
add_replay(acc, id) ==
    IF acc.kind = "SomeReplayed"
    THEN [kind |-> "SomeReplayed", ids |-> Append(acc.ids, id)]
    ELSE [kind |-> "SomeReplayed", ids |-> <<id>>]

\* CheckedReplays::add_fresh
add_fresh(acc, id) ==
    IF acc.kind = "SomeReplayed"
    THEN acc
    ELSE [kind |-> "AllFresh", ids |-> Append(acc.ids, id)]

\* ReportsProcessed::check_replays: a fold over the requested ids in order;
\* an id is a replay iff "processed/<id>" is stored as true.
RECURSIVE check_replays_from(_, _, _)
check_replays_from(stored, report_ids, acc) ==
    IF report_ids = <<>> THEN acc
    ELSE LET id == Head(report_ids)
         IN check_replays_from(stored, Tail(report_ids),
                IF id \in stored THEN add_replay(acc, id) ELSE add_fresh(acc, id))

check_replays(stored, report_ids) ==
    check_replays_from(stored, report_ids, CheckedReplaysDefault)

MarkAggregatedNoCheck(stored, report_ids) ==
    [resp |-> <<>>, stored |-> stored \cup Range(report_ids)]

\* The DURABLE_REPORTS_PROCESSED_MARK_AGGREGATED handler: the response and the
\* storage after it. The handler awaits only its own storage, so the object
\* handles one request at a time.
MarkAggregated(stored, report_ids) ==
    LET checked == check_replays(stored, report_ids)
    IN IF checked.kind = "SomeReplayed"
       THEN [resp |-> checked.ids, stored |-> stored]
       ELSE [resp |-> <<>>, stored |-> stored \cup Range(checked.ids)]

\* --------------------------------------------------------- initial values

StorageInit ==
    /\ processed = [d \in Shards |-> {}]
    /\ aggShare = [b \in Buckets |-> [r \in ReportIds |-> 0]]
    /\ collected = [b \in Buckets |-> FALSE]

storageVars == <<processed, aggShare, collected>>

NoJob ==
    [pc |-> "idle", span |-> {}, markPending |-> {}, replayed |-> {},
     marked |-> {}, mergePending |-> {}, merged |-> {}]

NoIni == [pc |-> "idle", reports |-> <<>>, min_time |-> 0, max_time |-> 0,
          atStart |-> {}, initialized |-> <<>>, out |-> <<>>]

DoIdle == doLog = <<>>
JobIdle == job = [j \in Jobs |-> NoJob]
IniIdle == ini = NoIni
MockIdle == mock = [b \in Buckets |-> [present |-> FALSE, agg_share |-> [r \in ReportIds |-> 0], collected |-> FALSE]]
NoLeader ==
    [pc |-> "idle", reports |-> <<>>, todo |-> <<>>, report_count |-> 0, uploaded |-> {},
     rejected |-> {}, last_collect |-> "none", last_abort |-> "none"]

LeaderIdle ==
    /\ leader = NoLeader
    /\ pending = <<>>
    /\ collectJobs = <<>>
    /\ helper = [b \in Buckets |-> FALSE]

NoResult == [kind |-> "None", abort |-> "None", seq |-> <<>>, round |-> "None",
             transitions |-> <<>>]

RespIdle ==
    resp = [pc |-> "idle", seq |-> <<>>, transitions |-> <<>>, version |-> "Draft02",
            result |-> NoResult]

leaderVars == <<leader, pending, collectJobs, helper>>

\* ------------------------------------- specification: ReportsProcessed

\* One mark_aggregated request handled by instance d; the log keeps the last
\* two requests with the storage before and after each.
HandleMarkAggregated(d, report_ids) ==
    LET out == MarkAggregated(processed[d], report_ids)
        entry == [req |-> report_ids, resp |-> out.resp,
                  before |-> processed[d], after |-> out.stored]
    IN /\ processed' = [processed EXCEPT ![d] = out.stored]
       /\ doLog' = IF doLog = <<>> THEN <<entry>> ELSE <<doLog[Len(doLog)], entry>>
       /\ UNCHANGED <<aggShare, collected, job, ini, mock, leaderVars, resp>>

InitDO ==
    /\ StorageInit /\ DoIdle /\ JobIdle /\ IniIdle /\ MockIdle /\ LeaderIdle /\ RespIdle

\* The requests go to one instance, the one that tracks report NumReports,
\* and name report ids that this instance tracks.
NextDO ==
    \E report_ids \in SeqsUpTo({r \in ReportIds : ShardOf(r) = ShardOf(NumReports)}, MaxReqLen) :
        HandleMarkAggregated(ShardOf(NumReports), report_ids)

SpecDO == InitDO /\ [][NextDO]_vars

LastReq == doLog[Len(doLog)]

\* C4: a mark_aggregated request returns exactly the requested ids that were
\* already stored as processed (in request order); if there is none it stores
\* every requested id, and otherwise it stores nothing.
C4_MarkAggregatedContract ==
    doLog # <<>> =>
        /\ LastReq.resp = SelectSeq(LastReq.req, LAMBDA id : id \in LastReq.before)
        /\ (LastReq.resp = <<>> => LastReq.after = LastReq.before \cup Range(LastReq.req))
        /\ (LastReq.resp # <<>> => LastReq.after = LastReq.before)

\* C4 witness: a request mixing a stored id and a fresh one was answered with
\* the stored id alone and stored nothing.
C4_Witness ==
    /\ doLog # <<>>
    /\ Len(LastReq.req) = 2
    /\ Len(LastReq.resp) = 1
    /\ Range(LastReq.req) \ LastReq.before # {}
    /\ LastReq.after = LastReq.before

\* C5: mark_aggregated is idempotent: the same request issued a second time to
\* the same instance yields the same response and the same stored state.
C5_MarkAggregatedIdempotent ==
    (Len(doLog) = 2 /\ doLog[1].req = doLog[2].req) =>
        /\ doLog[2].resp = doLog[1].resp
        /\ doLog[2].after = doLog[1].after

\* ------------------------------ specification: try_put_agg_share_span

\* reports_processed_request_data: the span's report ids grouped by the
\* ReportsProcessed instance that tracks them.
ReportsProcessedRequestData(span) ==
    [d \in {ShardOf(r) : r \in span} |-> SetToSeq({r \in span : ShardOf(r) = d})]

\* agg_store_request_data: one aggregate share delta per bucket of the span,
\* holding one output share of each of the bucket's reports.
AggStoreRequestData(span) ==
    [b \in {BucketOf(r) : r \in span} |->
        [r \in ReportIds |-> IF r \in span /\ BucketOf(r) = b THEN 1 ELSE 0]]

\* DapAggregateShare::merge
MergeShares(agg_share, delta) == [r \in ReportIds |-> agg_share[r] + delta[r]]

\* "Only aggregate the output shares if none are replayed"
ReplayedIsEmpty(replayed) == replayed = {}

\* The state of the call once every mark_aggregated response has arrived.
AfterMarking(jr) ==
    IF jr.markPending # {} THEN jr
    ELSE IF ReplayedIsEmpty(jr.replayed)
    THEN IF jr.span = {}
         THEN [jr EXCEPT !.pc = "done"]
         ELSE [jr EXCEPT !.pc = "merging",
                         !.mergePending = DOMAIN AggStoreRequestData(jr.span)]
    ELSE [jr EXCEPT !.pc = "replayed"]

\* A call of try_put_agg_share_span with a span over the given report ids: the
\* request data are built and every mark_aggregated request is issued. The
\* calls are numbered in the order in which they start.
TryPutStart(j, span) ==
    /\ job[j].pc = "idle"
    /\ \A k \in Jobs : k < j => job[k].pc # "idle"
    /\ job' = [job EXCEPT ![j] =
            AfterMarking([NoJob EXCEPT !.pc = "marking", !.span = span,
                !.markPending = DOMAIN ReportsProcessedRequestData(span)])]
    /\ UNCHANGED <<storageVars, doLog, ini, mock, leaderVars, resp>>

\* The ReportsProcessed instance d handles the call's request and the response
\* arrives.
MarkStep(j, d) ==
    /\ job[j].pc = "marking"
    /\ d \in job[j].markPending
    /\ LET out == MarkAggregated(processed[d], ReportsProcessedRequestData(job[j].span)[d])
       IN /\ processed' = [processed EXCEPT ![d] = out.stored]
          /\ job' = [job EXCEPT ![j] = AfterMarking(
                [@ EXCEPT !.markPending = @ \ {d},
                          !.replayed = @ \cup Range(out.resp),
                          !.marked = @ \cup (out.stored \ processed[d])])]
    /\ UNCHANGED <<aggShare, collected, doLog, ini, mock, leaderVars, resp>>

\* The request to instance d fails (durable_request returns Err, not retried):
\* try_join_all returns the error and the call ends. The request was lost
\* before the instance handled it, or its response was lost after.
MarkFail(j, d, applied) ==
    /\ job[j].pc = "marking"
    /\ d \in job[j].markPending
    /\ LET out == MarkAggregated(processed[d], ReportsProcessedRequestData(job[j].span)[d])
       IN /\ processed' = [processed EXCEPT ![d] = IF applied THEN out.stored ELSE @]
          /\ job' = [job EXCEPT ![j] =
                [@ EXCEPT !.pc = "failed", !.markPending = {},
                          !.marked = IF applied THEN @ \cup (out.stored \ processed[d]) ELSE @]]
    /\ UNCHANGED <<aggShare, collected, doLog, ini, mock, leaderVars, resp>>

\* The AggregateStore merge handler: a collected bucket refuses the delta.
AggregateStoreMerge(agg_share, is_collected, delta) ==
    IF is_collected
    THEN [ok |-> FALSE, agg_share |-> agg_share]
    ELSE [ok |-> TRUE, agg_share |-> MergeShares(agg_share, delta)]

\* The AggregateStore of bucket b handles the call's merge request.
MergeStep(j, b) ==
    /\ job[j].pc = "merging"
    /\ b \in job[j].mergePending
    /\ LET out == AggregateStoreMerge(aggShare[b], collected[b], AggStoreRequestData(job[j].span)[b])
       IN /\ aggShare' = [aggShare EXCEPT ![b] = out.agg_share]
          /\ job' = [job EXCEPT ![j] =
                IF out.ok
                THEN [@ EXCEPT !.mergePending = @ \ {b},
                               !.merged = @ \cup {b},
                               !.pc = IF job[j].mergePending = {b} THEN "done" ELSE @]
                ELSE [@ EXCEPT !.pc = "failed", !.mergePending = {}]]
    /\ UNCHANGED <<processed, collected, doLog, ini, mock, leaderVars, resp>>

\* The merge request for bucket b fails (not retried): try_for_each short
\* circuits and the call ends with the error.
MergeFail(j, b, applied) ==
    /\ job[j].pc = "merging"
    /\ b \in job[j].mergePending
    /\ LET out == AggregateStoreMerge(aggShare[b], collected[b], AggStoreRequestData(job[j].span)[b])
       IN /\ aggShare' = [aggShare EXCEPT ![b] = IF applied THEN out.agg_share ELSE @]
          /\ job' = [job EXCEPT ![j] =
                [@ EXCEPT !.pc = "failed", !.mergePending = {},
                          !.merged = IF applied /\ out.ok THEN @ \cup {b} ELSE @]]
    /\ UNCHANGED <<processed, collected, doLog, ini, mock, leaderVars, resp>>

\* The AggregateStore mark_collected handler of bucket b.
MarkCollectedBucket(b) ==
    /\ ~collected[b]
    /\ collected' = [collected EXCEPT ![b] = TRUE]
    /\ UNCHANGED <<processed, aggShare, doLog, job, ini, mock, leaderVars, resp>>

InitCommit ==
    /\ StorageInit /\ DoIdle /\ JobIdle /\ IniIdle /\ MockIdle /\ LeaderIdle /\ RespIdle

NextCommit ==
    \/ \E j \in Jobs, span \in SUBSET ReportIds : TryPutStart(j, span)
    \/ \E j \in Jobs, d \in Shards : MarkStep(j, d)
    \/ \E j \in Jobs, d \in Shards, applied \in BOOLEAN : MarkFail(j, d, applied)
    \/ \E j \in Jobs, b \in Buckets : MergeStep(j, b)
    \/ \E j \in Jobs, b \in Buckets, applied \in BOOLEAN : MergeFail(j, b, applied)
    \/ \E b \in Buckets : MarkCollectedBucket(b)

SpecCommit == InitCommit /\ [][NextCommit]_vars

Ended(j) == job[j].pc \in {"done", "replayed", "failed"}

C2_ReplayMarksNothing ==
    \A j \in Jobs : job[j].pc = "replayed" => job[j].marked = {} /\ job[j].merged = {}

\* C3: a call that has ended has either recorded every report id of the span
\* and merged every bucket delta, or updated no bucket.
C3_CommitAllOrNothing ==
    \A j \in Jobs : Ended(j) =>
        \/ /\ \A r \in job[j].span : r \in processed[ShardOf(r)]
           /\ job[j].merged = DOMAIN AggStoreRequestData(job[j].span)
        \/ job[j].merged = {}

\* run_agg_job after try_put_agg_share_span has returned Ok, with or without
\* a replay set: the value returned is out_shares_count, the report count of
\* the span handed to try_put_agg_share_span.
run_agg_job_returns(j) == Cardinality(job[j].span)

\* C22: run_agg_job returns the number of reports of the job that were
\* aggregated, that is, whose output shares the job merged into the
\* aggregate store.
C22_ReturnsAggregatedCount ==
    \A j \in Jobs : job[j].pc \in {"done", "replayed"} =>
        run_agg_job_returns(j) = Cardinality({r \in job[j].span : BucketOf(r) \in job[j].merged})

\* ------------------------------ specification: MockAggregator's agg_store

\* A batch interval [start, start + duration) of whole windows.
BatchIntervals ==
    {[start |-> b, duration |-> n * TimePrecision] : b \in Buckets, n \in 1..2}

InInterval(interval, window) ==
    interval.start <= window /\ interval.start + interval.duration > window

\* DapAggregateShare::batches_from_out_shares: the output shares grouped by
\* the window of their report's time.
BatchesFromOutShares(out_shares) ==
    [w \in {BucketOf(r) : r \in out_shares} |->
        [r \in ReportIds |-> IF r \in out_shares /\ BucketOf(r) = w THEN 1 ELSE 0]]

\* MockAggregator::put_out_shares: each window's delta is merged into the
\* stored entry, or inserted as a new entry that is not collected.
PutOutShares(agg_store, out_shares) ==
    LET agg_shares == BatchesFromOutShares(out_shares)
    IN [w \in Buckets |->
            IF w \in DOMAIN agg_shares
            THEN IF agg_store[w].present
                 THEN [agg_store[w] EXCEPT
                          !.agg_share = MergeShares(@, agg_shares[w])]
                 ELSE [present |-> TRUE, agg_share |-> agg_shares[w],
                       collected |-> FALSE]
            ELSE agg_store[w]]

MockPutOutShares(out_shares) ==
    /\ \A r \in out_shares : mock[BucketOf(r)].agg_share[r] < MaxShareCount
    /\ mock' = PutOutShares(mock, out_shares)
    /\ UNCHANGED <<storageVars, doLog, job, ini, leaderVars, resp>>

\* MockAggregator::mark_collected: every stored entry of the interval is
\* marked as collected.
MockMarkCollected(interval) ==
    /\ mock' = [w \in Buckets |->
            IF mock[w].present /\ InInterval(interval, w)
            THEN [mock[w] EXCEPT !.collected = TRUE]
            ELSE mock[w]]
    /\ UNCHANGED <<storageVars, doLog, job, ini, leaderVars, resp>>

InitMock ==
    /\ StorageInit /\ DoIdle /\ JobIdle /\ IniIdle /\ MockIdle /\ LeaderIdle /\ RespIdle

NextMock ==
    \/ \E out_shares \in SUBSET ReportIds \ {{}} : MockPutOutShares(out_shares)
    \/ \E interval \in BatchIntervals : MockMarkCollected(interval)

SpecMock == InitMock /\ [][NextMock]_vars

\* C6: once a bucket is marked collected, no later commit changes its stored
\* aggregate share.
C6_CollectedShareFrozen ==
    [][\A w \in Buckets : mock[w].collected => mock'[w].agg_share = mock[w].agg_share]_vars

\* ------------------------------ specification: initialize_reports

MaxTime == NumReports - 1

\* A consumed report: Ready with a valid or an invalid input share, or
\* Rejected when it was consumed (the failure of EarlyReportStateConsumed).
ConsumedKinds == {"Ready", "ReadyInvalid", "HpkeDecryptError"}

ConsumedReports == [id : ReportIds, kind : ConsumedKinds]

\* EarlyReportStateConsumed::is_ready
ConsumedIsReady(c) == c.kind \in {"Ready", "ReadyInvalid"}

\* EarlyReportStateInitialized::initialize: a Rejected report keeps its
\* failure, a Ready one is Ready if VDAF preparation starts and is rejected
\* with VdafPrepError if not.
Initialize(c) ==
    IF ~ConsumedIsReady(c) THEN c.kind
    ELSE IF c.kind = "Ready" THEN "Ready" ELSE "VdafPrepError"

\* The ReportsProcessed initialize handler of one instance: the Ready reports
\* found in storage are the replayed ones; every report of a replayed id is
\* rejected with ReportReplayed, the others are initialized.
ReportsProcessedInitialize(stored, consumed_reports) ==
    LET replayed_reports ==
            {consumed_reports[i].id : i \in {k \in 1..Len(consumed_reports) :
                /\ ConsumedIsReady(consumed_reports[k])
                /\ consumed_reports[k].id \in stored}}
    IN [i \in 1..Len(consumed_reports) |->
            [id |-> consumed_reports[i].id,
             state |-> IF consumed_reports[i].id \in replayed_reports
                       THEN "ReportReplayed"
                       ELSE Initialize(consumed_reports[i])]]

\* roles::early_metadata_check: the failure, if any, of a report given
\* whether it was processed, whether its bucket was collected, and the valid
\* time range.
early_metadata_check(time, is_processed, is_collected, min_time, max_time) ==
    IF is_processed THEN "ReportReplayed"
    ELSE IF is_collected THEN "BatchCollected"
    ELSE IF time < min_time THEN "ReportDropped"
    ELSE IF time > max_time THEN "ReportTooEarly"
    ELSE "None"

RejectCollectedSkipReady(state, time, is_collected, min_time, max_time) ==
    IF state = "ReportReplayed"
    THEN early_metadata_check(time, TRUE, is_collected, min_time, max_time)
    ELSE state

\* "Reject reports that have been collected": a Ready report is checked as
\* not processed, a ReportReplayed one as processed, and any other rejected
\* report is left as it is.
RejectCollected(state, time, is_collected, min_time, max_time) ==
    IF state \notin {"Ready", "ReportReplayed"} THEN state
    ELSE LET failure == early_metadata_check(time, state = "ReportReplayed",
                                             is_collected, min_time, max_time)
         IN IF failure # "None" THEN failure ELSE state

\* The hash map of the ReportsProcessed responses: for a report id, the state
\* of its last report in the consumed order.
InitializedById(consumed_reports, stored) ==
    LET resp_of(d) == ReportsProcessedInitialize(stored[d],
            SelectSeq(consumed_reports, LAMBDA c : ShardOf(c.id) = d))
    IN [r \in {consumed_reports[i].id : i \in 1..Len(consumed_reports)} |->
            LET rs == SelectSeq(resp_of(ShardOf(r)), LAMBDA x : x.id = r)
            IN rs[Len(rs)].state]

\* initialize_reports is called: the request data are built; the current time
\* fixes the range of valid report times.
IniStart(consumed_reports, min_time, max_time) ==
    /\ ini.pc = "idle"
    /\ ini' = [NoIni EXCEPT !.pc = "reports_processed",
                            !.reports = consumed_reports,
                            !.min_time = min_time, !.max_time = max_time,
                            !.atStart = {b \in Buckets : collected[b]}]
    /\ UNCHANGED <<storageVars, doLog, job, mock, leaderVars, resp>>

\* The ReportsProcessed instances answer the initialize requests.
IniReportsProcessed ==
    /\ ini.pc = "reports_processed"
    /\ ini' = [ini EXCEPT !.pc = "aggregate_store",
                          !.initialized = InitializedById(ini.reports, processed)]
    /\ UNCHANGED <<storageVars, doLog, job, mock, leaderVars, resp>>

\* The AggregateStore instances answer check_collected, the reports of
\* collected buckets are rejected and the result is put in the consumed order.
\* A report id that occurs twice is missing from the map the second time.
IniAggregateStore ==
    /\ ini.pc = "aggregate_store"
    /\ LET n == Len(ini.reports)
           distinct == \A i, k \in 1..n : i # k => ini.reports[i].id # ini.reports[k].id
       IN ini' = IF distinct
                 THEN [ini EXCEPT !.pc = "done",
                        !.out = [i \in 1..n |->
                            LET r == ini.reports[i].id
                            IN [id |-> r,
                                state |-> RejectCollected(ini.initialized[r],
                                    ReportTime(r), collected[BucketOf(r)],
                                    ini.min_time, ini.max_time)]]]
                 ELSE [ini EXCEPT !.pc = "failed"]
    /\ UNCHANGED <<storageVars, doLog, job, mock, leaderVars, resp>>

\* A request to a durable object fails after its retries: try_join_all
\* returns the error and the call ends.
IniFail ==
    /\ ini.pc \in {"reports_processed", "aggregate_store"}
    /\ ini' = [ini EXCEPT !.pc = "failed"]
    /\ UNCHANGED <<storageVars, doLog, job, mock, leaderVars, resp>>

\* The call has returned; the next one may start.
IniReturn ==
    /\ ini.pc \in {"done", "failed"}
    /\ ini' = NoIni
    /\ UNCHANGED <<storageVars, doLog, job, mock, leaderVars, resp>>

\* Another job commits report r: its ReportsProcessed instance stores it.
IniEnvMarkAggregated(r) ==
    /\ r \notin processed[ShardOf(r)]
    /\ processed' = [processed EXCEPT ![ShardOf(r)] = MarkAggregated(@, <<r>>).stored]
    /\ UNCHANGED <<aggShare, collected, doLog, job, ini, mock, leaderVars, resp>>

\* The valid report times [min_time, max_time] at the time of a call: all
\* report times, or all but the least and the greatest.
ValidTimeRanges == {<<0, MaxTime>>, <<1, MaxTime - 1>>}

InitInitialize ==
    /\ StorageInit /\ DoIdle /\ JobIdle /\ IniIdle /\ MockIdle /\ LeaderIdle /\ RespIdle

NextInitialize ==
    \/ \E consumed_reports \in SeqsUpTo(ConsumedReports, MaxReqLen) \ {<<>>},
          valid \in ValidTimeRanges :
            IniStart(consumed_reports, valid[1], valid[2])
    \/ IniReportsProcessed
    \/ IniAggregateStore
    \/ IniFail
    \/ IniReturn
    \/ \E r \in ReportIds : IniEnvMarkAggregated(r)
    \/ \E b \in Buckets : MarkCollectedBucket(b)

SpecInitialize == InitInitialize /\ [][NextInitialize]_vars

\* C7: every report that initialize_reports maps to a bucket that was marked
\* collected before the call comes out Rejected, never Ready; one that was
\* still Ready after the replay check is rejected with BatchCollected.
C7_CollectedBucketRejects ==
    ini.pc = "done" =>
        \A i \in 1..Len(ini.out) :
            BucketOf(ini.out[i].id) \in ini.atStart =>
                /\ ini.out[i].state # "Ready"
                /\ ini.initialized[ini.out[i].id] = "Ready"
                        => ini.out[i].state = "BatchCollected"

\* C7 witness: a call has returned a report of a bucket collected before the
\* call, which the replay check left Ready, as BatchCollected.
C7_Witness ==
    /\ ini.pc = "done"
    /\ \E i \in 1..Len(ini.out) :
        /\ BucketOf(ini.out[i].id) \in ini.atStart
        /\ ini.initialized[ini.out[i].id] = "Ready"
        /\ ini.out[i].state = "BatchCollected"

\* ------------------------------ specification: the Leader's process()

IsBatchOverlappingNever(is_collected, interval) == FALSE

\* is_batch_overlapping: some bucket spanned by the batch selector is marked
\* collected.
is_batch_overlapping(is_collected, interval) ==
    \E b \in Buckets : InInterval(interval, b) /\ is_collected[b]

RECURSIVE SumOver(_, _)
SumOver(f, S) ==
    IF S = {} THEN 0
    ELSE LET x == CHOOSE y \in S : TRUE IN f[x] + SumOver(f, S \ {x})

GetAggShareReportCountFirstBucket(interval) == SumOver(aggShare[interval.start], ReportIds)

\* get_agg_share: the aggregate shares of the spanned buckets merged;
\* report_count is the number of output shares in the result.
GetAggShareReportCount(interval) ==
    SumOver([b \in Buckets |-> SumOver(aggShare[b], ReportIds)],
            {b \in Buckets : InInterval(interval, b)})

\* get_pending_collect_jobs: the collect jobs in state Pending, in queue order.
GetPendingCollectJobs ==
    SetToSeq({i \in 1..Len(collectJobs) : collectJobs[i].state = "Pending"})

\* process() or one of the calls it makes returns an error: the invocation
\* ends and its local state is dropped.
Abort(reason) ==
    [leader EXCEPT !.pc = "idle", !.reports = <<>>, !.todo = <<>>, !.report_count = 0,
                    !.last_abort = reason]

\* The aggregation jobs of the invocation are done: the pending collect jobs
\* are fetched.
EnterCollect(l) ==
    IF GetPendingCollectJobs = <<>>
    THEN [l EXCEPT !.pc = "idle", !.reports = <<>>, !.todo = <<>>]
    ELSE [l EXCEPT !.pc = "get_agg_share", !.reports = <<>>, !.todo = GetPendingCollectJobs]

\* run_collect_job has returned: the next pending collect job, if any.
NextCollectJob(l) ==
    IF Len(l.todo) <= 1
    THEN [l EXCEPT !.pc = "idle", !.todo = <<>>, !.report_count = 0]
    ELSE [l EXCEPT !.pc = "get_agg_share", !.todo = Tail(@), !.report_count = 0]

\* handle_upload_req: put_report appends the report to the pending queue.
LeaderUpload(r) ==
    /\ r \notin leader.uploaded
    /\ pending' = Append(pending, r)
    /\ leader' = [leader EXCEPT !.uploaded = @ \cup {r}]
    /\ UNCHANGED <<storageVars, doLog, job, ini, mock, collectJobs, helper, resp>>

\* process(): get_reports drains up to AggRate reports from the pending queue;
\* with no report, no aggregation job is run.
ProcessGetReports ==
    /\ leader.pc = "idle"
    /\ LET n == IF Len(pending) < AggRate THEN Len(pending) ELSE AggRate
       IN /\ pending' = SubSeq(pending, n + 1, Len(pending))
          /\ leader' = IF n = 0
                       THEN EnterCollect([leader EXCEPT !.last_abort = "none"])
                       ELSE [leader EXCEPT !.pc = "init", !.last_abort = "none",
                                           !.reports = SubSeq(pending, 1, n)]
    /\ UNCHANGED <<storageVars, doLog, job, ini, mock, collectJobs, helper, resp>>

\* run_agg_job: the reports are initialized, the AggregationJobInitReq is sent
\* and the response handled. The reports in `continued` are those that were
\* initialized Ready and that the Helper continued; the others are rejected.
\* With none left the job is skipped. A failed request ends process().
LeaderInitReq(ok, continued) ==
    /\ leader.pc = "init"
    /\ continued \subseteq {r \in Range(leader.reports) :
            RejectCollected("Ready", ReportTime(r), collected[BucketOf(r)], 0, MaxTime) = "Ready"}
    /\ leader' =
         IF ~ok THEN Abort("PeerError")
         ELSE LET l == [leader EXCEPT
                          !.rejected = @ \cup (Range(leader.reports) \ continued),
                          !.reports = SelectSeq(@, LAMBDA r : r \in continued)]
              IN IF continued = {} THEN EnterCollect(l) ELSE [l EXCEPT !.pc = "cont"]
    /\ UNCHANGED <<storageVars, doLog, job, ini, mock, pending, collectJobs, helper, resp>>

\* run_agg_job: the AggregationJobContinueReq is sent and the final response
\* handled; the reports in `finished` make the aggregate share span.
LeaderContReq(ok, finished) ==
    /\ leader.pc = "cont"
    /\ finished \subseteq Range(leader.reports)
    /\ leader' =
         IF ~ok THEN Abort("PeerError")
         ELSE [leader EXCEPT !.pc = "commit",
                  !.rejected = @ \cup (Range(leader.reports) \ finished),
                  !.reports = SelectSeq(@, LAMBDA r : r \in finished)]
    /\ UNCHANGED <<storageVars, doLog, job, ini, mock, pending, collectJobs, helper, resp>>

\* run_agg_job: try_put_agg_share_span commits the span; replays are logged.
LeaderCommit(ok) ==
    /\ leader.pc = "commit"
    /\ LET span == Range(leader.reports)
           reqs == ReportsProcessedRequestData(span)
           outs == [d \in DOMAIN reqs |-> MarkAggregated(processed[d], reqs[d])]
           replayed == UNION {Range(outs[d].resp) : d \in DOMAIN reqs}
           deltas == AggStoreRequestData(span)
       IN IF ok
          THEN /\ processed' = [d \in Shards |->
                        IF d \in DOMAIN reqs THEN outs[d].stored ELSE processed[d]]
               /\ aggShare' = [b \in Buckets |->
                        IF b \in DOMAIN deltas /\ ReplayedIsEmpty(replayed)
                        THEN AggregateStoreMerge(aggShare[b], collected[b], deltas[b]).agg_share
                        ELSE aggShare[b]]
               /\ leader' = EnterCollect(leader)
          ELSE /\ UNCHANGED <<processed, aggShare>>
               /\ leader' = Abort("StorageError")
    /\ UNCHANGED <<collected, doLog, job, ini, mock, pending, collectJobs, helper, resp>>

\* handle_collect_job_req: check_batch rejects a batch that overlaps a
\* collected one; otherwise init_collect_job queues a Pending collect job.
HandleCollectJobReq(interval) ==
    /\ Len(collectJobs) < MaxCollectJobs
    /\ IF is_batch_overlapping(collected, interval)
       THEN /\ leader' = [leader EXCEPT !.last_collect = "BatchOverlap"]
            /\ UNCHANGED collectJobs
       ELSE /\ leader' = [leader EXCEPT !.last_collect = "accepted"]
            /\ collectJobs' = Append(collectJobs,
                    [interval |-> interval, state |-> "Pending",
                     collected_at_accept |->
                        \E b \in Buckets : InInterval(interval, b) /\ collected[b]])
    /\ UNCHANGED <<storageVars, doLog, job, ini, mock, pending, helper, resp>>

LeaderGetAggShareNoSizeCheck ==
    /\ leader.pc = "get_agg_share"
    /\ leader' = [leader EXCEPT !.pc = "agg_share_req",
            !.report_count = GetAggShareReportCount(collectJobs[Head(leader.todo)].interval)]
    /\ UNCHANGED <<storageVars, doLog, job, ini, mock, pending, collectJobs, helper, resp>>

\* run_collect_job: get_agg_share; a batch that is too small is not ready.
\* report_count is leader_agg_share.report_count, which goes into the
\* AggregateShareReq and into the Collection.
LeaderGetAggShare ==
    /\ leader.pc = "get_agg_share"
    /\ LET report_count == GetAggShareReportCount(collectJobs[Head(leader.todo)].interval)
       IN leader' = IF report_count < MinBatchSize
                    THEN NextCollectJob(leader)
                    ELSE [leader EXCEPT !.pc = "agg_share_req", !.report_count = report_count]
    /\ UNCHANGED <<storageVars, doLog, job, ini, mock, pending, collectJobs, helper, resp>>

\* run_collect_job: the AggregateShareReq is sent to the Helper. The Helper
\* rejects a batch that overlaps a collected one, and otherwise marks the
\* batch collected and answers with its aggregate share. The request or the
\* response may be lost.
LeaderAggShareReq(delivered, answered) ==
    /\ leader.pc = "agg_share_req"
    /\ LET interval == collectJobs[Head(leader.todo)].interval
       IN IF ~delivered
          THEN leader' = Abort("PeerError") /\ UNCHANGED helper
          ELSE IF is_batch_overlapping(helper, interval)
          THEN leader' = Abort("BatchOverlap") /\ UNCHANGED helper
          ELSE /\ helper' = [b \in Buckets |-> helper[b] \/ InInterval(interval, b)]
               /\ leader' = IF answered THEN [leader EXCEPT !.pc = "finish"]
                            ELSE Abort("PeerError")
    /\ UNCHANGED <<storageVars, doLog, job, ini, mock, pending, collectJobs, resp>>

\* run_collect_job: finish_collect_job stores the Collection; a collect job
\* that is already Processed is not overwritten.
LeaderFinishCollectJob ==
    /\ leader.pc = "finish"
    /\ LET i == Head(leader.todo)
       IN IF collectJobs[i].state = "Pending"
          THEN /\ collectJobs' = [collectJobs EXCEPT ![i].state = "Processed"]
               /\ leader' = [leader EXCEPT !.pc = "mark"]
          ELSE /\ UNCHANGED collectJobs
               /\ leader' = Abort("Fatal")
    /\ UNCHANGED <<storageVars, doLog, job, ini, mock, pending, helper, resp>>

\* run_collect_job: mark_collected marks the spanned buckets; the requests are
\* not retried.
LeaderMarkCollected(ok) ==
    /\ leader.pc = "mark"
    /\ LET interval == collectJobs[Head(leader.todo)].interval
       IN IF ok
          THEN /\ collected' = [b \in Buckets |-> collected[b] \/ InInterval(interval, b)]
               /\ leader' = NextCollectJob(leader)
          ELSE /\ UNCHANGED collected
               /\ leader' = Abort("StorageError")
    /\ UNCHANGED <<processed, aggShare, doLog, job, ini, mock, pending, collectJobs, helper, resp>>

InitLeader ==
    /\ StorageInit /\ DoIdle /\ JobIdle /\ IniIdle /\ MockIdle /\ LeaderIdle /\ RespIdle

NextLeader ==
    \/ \E r \in ReportIds : LeaderUpload(r)
    \/ ProcessGetReports
    \/ \E ok \in BOOLEAN, continued \in SUBSET ReportIds : LeaderInitReq(ok, continued)
    \/ \E ok \in BOOLEAN, finished \in SUBSET ReportIds : LeaderContReq(ok, finished)
    \/ \E ok \in BOOLEAN : LeaderCommit(ok)
    \/ \E interval \in BatchIntervals : HandleCollectJobReq(interval)
    \/ LeaderGetAggShare
    \/ \E delivered, answered \in BOOLEAN : LeaderAggShareReq(delivered, answered)
    \/ LeaderFinishCollectJob
    \/ \E ok \in BOOLEAN : LeaderMarkCollected(ok)

SpecLeader == InitLeader /\ [][NextLeader]_vars

Processed(i) == collectJobs[i].state = "Processed"

C9_DrainedReportsNotLost ==
    \A r \in leader.uploaded :
        \/ r \in Range(pending)
        \/ r \in Range(leader.reports)
        \/ r \in processed[ShardOf(r)]
        \/ r \in leader.rejected

\* C18: when the Leader's aggregate share for the selector has fewer reports
\* than the minimum batch size, run_collect_job returns 0 and changes nothing:
\* no request goes to the Helper, the collect job stays pending, no bucket is
\* marked collected, and process() goes on to the next collect job.
C18_SmallBatchChangesNothing ==
    [][(/\ leader.pc = "get_agg_share"
        /\ leader'.pc # leader.pc \/ leader'.todo # leader.todo
        /\ GetAggShareReportCount(collectJobs[Head(leader.todo)].interval) < MinBatchSize)
       => /\ leader'.pc \in {"idle", "get_agg_share"}
          /\ leader'.todo = Tail(leader.todo) \/ leader'.todo = <<>>
          /\ leader'.last_abort = leader.last_abort
          /\ helper' = helper
          /\ collectJobs' = collectJobs
          /\ storageVars' = storageVars
          /\ pending' = pending]_vars

\* C18 witness: process() fetched two pending collect jobs and is at the
\* second one, after run_collect_job on the first one found its batch too
\* small: the first job is still pending and nothing was sent or collected.
C18_Witness ==
    /\ leader.pc = "get_agg_share"
    /\ leader.todo = <<2>>
    /\ collectJobs[1].state = "Pending"
    /\ GetAggShareReportCount(collectJobs[1].interval) < MinBatchSize
    /\ \A b \in Buckets : ~helper[b] /\ ~collected[b]

\* C19: whenever a collect job is Processed and the run_collect_job call that
\* finished it has ended, every bucket spanned by the job is marked collected;
\* and a Processed job stays Processed, so that it never becomes Processed a
\* second time.
C19_ProcessedIsCollected ==
    /\ [](\A i \in 1..Len(collectJobs) :
            (/\ Processed(i)
             /\ ~(leader.pc = "mark" /\ Head(leader.todo) = i))
            => \A b \in Buckets : InInterval(collectJobs[i].interval, b) => collected[b])
    /\ [][\A i \in 1..Len(collectJobs) : Processed(i) => collectJobs'[i].state = "Processed"]_vars

\* The output shares held by the buckets that the interval spans, counted
\* report by report.
MergedInto(interval) ==
    Cardinality({r \in ReportIds :
        InInterval(interval, BucketOf(r)) /\ aggShare[BucketOf(r)][r] > 0})

InCollectJob == leader.pc \in {"get_agg_share", "agg_share_req", "finish", "mark"}

\* C28: within one process() invocation the collect jobs are run after the
\* aggregation jobs of the pass have ended, and no step of a collect job
\* changes the aggregate store, so the report_count of the Collection is the
\* number of reports merged into the selector's buckets from the moment the
\* aggregate share is read until the buckets are marked collected.
C28_CollectAfterAggregation ==
    /\ [](InCollectJob => leader.reports = <<>>)
    /\ [][InCollectJob => aggShare' = aggShare /\ processed' = processed]_vars
    /\ [](leader.pc \in {"agg_share_req", "finish", "mark"} =>
            leader.report_count = MergedInto(collectJobs[Head(leader.todo)].interval))

\* C28 witness: a collect job over two buckets that both hold output shares
\* is about to mark them collected, its Collection stored with the count of
\* both.
C28_Witness ==
    /\ leader.pc = "mark"
    /\ LET i == Head(leader.todo)
       IN /\ Processed(i)
          /\ collectJobs[i].interval.duration = 2 * TimePrecision
          /\ \A b \in Buckets : InInterval(collectJobs[i].interval, b) =>
                SumOver(aggShare[b], ReportIds) > 0
          /\ leader.report_count = MergedInto(collectJobs[i].interval)
          /\ leader.report_count >= 2

\* ------------------------------ specification: handle_agg_job_resp

Versions == {"Draft02", "Draft07"}

\* TransitionVar of a Helper transition. A Continued message is one with
\* which prep_finish_from_shares succeeds, or one with which it fails.
TransitionVars == {"Continued", "ContinuedInvalid", "Failed", "Finished"}

Transitions == [report_id : ReportIds, var : TransitionVars]

\* DapLeaderState::seq, by report id: the ids of a job are distinct.
LeaderSeqs ==
    {q \in SeqsUpTo(ReportIds, MaxReqLen) : \A i, k \in 1..Len(q) : i # k => q[i] # q[k]}

AbortUnrecognizedMessage == [NoResult EXCEPT !.kind = "Abort", !.abort = "UnrecognizedMessage"]

\* The loop of handle_agg_job_resp over the zipped transitions and leader
\* states, from position i, with the transitions and states pushed so far.
RECURSIVE handle_agg_job_resp_loop(_, _, _, _, _)
handle_agg_job_resp_loop(state_seq, transitions, i, seq, states) ==
    IF i > Len(transitions) \/ i > Len(state_seq)
    THEN [NoResult EXCEPT !.kind = "Continue", !.transitions = seq, !.seq = states]
    ELSE LET helper_transition == transitions[i]
             leader_report_id == state_seq[i]
         IN IF helper_transition.report_id # leader_report_id THEN AbortUnrecognizedMessage
            ELSE IF helper_transition.var = "Failed"
            THEN handle_agg_job_resp_loop(state_seq, transitions, i + 1, seq, states)
            ELSE IF helper_transition.var = "Finished" THEN AbortUnrecognizedMessage
            ELSE IF helper_transition.var = "Continued"
            THEN handle_agg_job_resp_loop(state_seq, transitions, i + 1,
                    Append(seq, [report_id |-> leader_report_id, var |-> "Continued"]),
                    Append(states, leader_report_id))
            ELSE handle_agg_job_resp_loop(state_seq, transitions, i + 1, seq, states)

handle_agg_job_resp_end_no_skip(looped, version) ==
    IF looped.kind = "Abort" THEN looped
    ELSE [looped EXCEPT !.kind = "Uncommitted",
                        !.round = IF version = "Draft02" THEN "None" ELSE "1"]

\* The end of handle_agg_job_resp: Skip with no transition left, otherwise
\* the Uncommitted state and the AggregationJobContinueReq.
handle_agg_job_resp_end(looped, version) ==
    IF looped.kind = "Abort" THEN looped
    ELSE IF looped.transitions = <<>> THEN [NoResult EXCEPT !.kind = "Skip"]
    ELSE [looped EXCEPT !.kind = "Uncommitted",
                        !.round = IF version = "Draft02" THEN "None" ELSE "1"]

handle_agg_job_resp_zip(state_seq, transitions, version) ==
    handle_agg_job_resp_end(
        handle_agg_job_resp_loop(state_seq, transitions, 1, <<>>, <<>>), version)

handle_agg_job_resp(state_seq, transitions, version) ==
    IF Len(transitions) # Len(state_seq) THEN AbortUnrecognizedMessage
    ELSE handle_agg_job_resp_end(
            handle_agg_job_resp_loop(state_seq, transitions, 1, <<>>, <<>>), version)

\* The Leader handles the Helper's response to its AggregationJobInitReq.
RespHandle ==
    /\ resp.pc = "start"
    /\ resp' = [resp EXCEPT !.pc = "done",
            !.result = handle_agg_job_resp(resp.seq, resp.transitions, resp.version)]
    /\ UNCHANGED <<storageVars, doLog, job, ini, mock, leaderVars>>

InitResp ==
    /\ StorageInit /\ DoIdle /\ JobIdle /\ IniIdle /\ MockIdle /\ LeaderIdle
    /\ resp \in [pc : {"start"}, seq : LeaderSeqs,
                 transitions : SeqsUpTo(Transitions, MaxReqLen),
                 version : Versions, result : {NoResult}]

NextResp == RespHandle

SpecResp == InitResp /\ [][NextResp]_vars

\* C10: handle_agg_job_resp aborts with UnrecognizedMessage, with no
\* Uncommitted state and no continue request, when the number of transitions
\* differs from the length of the leader state, when a transition's report id
\* differs from the leader state's at the same position, or when a transition
\* is Finished.
C10_RespAborts ==
    LET n == IF Len(resp.transitions) < Len(resp.seq) THEN Len(resp.transitions)
             ELSE Len(resp.seq)
    IN (/\ resp.pc = "done"
        /\ \/ Len(resp.transitions) # Len(resp.seq)
           \/ \E i \in 1..n : resp.transitions[i].report_id # resp.seq[i]
           \/ \E i \in 1..Len(resp.transitions) : resp.transitions[i].var = "Finished")
       => resp.result = AbortUnrecognizedMessage

\* C10 witness: a response of the right length and order whose second
\* transition is Finished, after a Continued one, was aborted.
C10_Witness ==
    /\ resp.pc = "done"
    /\ Len(resp.transitions) = 2 /\ Len(resp.seq) = 2
    /\ \A i \in 1..2 : resp.transitions[i].report_id = resp.seq[i]
    /\ resp.transitions[1].var = "Continued"
    /\ resp.transitions[2].var = "Finished"
    /\ resp.result.kind = "Abort"

\* C32: on a valid first Helper response, handle_agg_job_resp keeps exactly
\* the reports whose Helper transition is Continued and whose
\* prep_finish_from_shares succeeds: the continue request and the
\* Uncommitted state list them in the Leader's order with equal report ids;
\* Failed transitions and VDAF errors drop the report without an abort; with
\* no report kept the result is Skip.
C32_RespKeepsContinued ==
    (/\ resp.pc = "done"
     /\ Len(resp.transitions) = Len(resp.seq)
     /\ \A i \in 1..Len(resp.seq) :
            /\ resp.transitions[i].report_id = resp.seq[i]
            /\ resp.transitions[i].var # "Finished")
    => LET kept == SelectSeq(resp.seq, LAMBDA r :
                    \E i \in 1..Len(resp.seq) :
                        resp.seq[i] = r /\ resp.transitions[i].var = "Continued")
       IN IF kept = <<>>
          THEN resp.result.kind = "Skip"
          ELSE /\ resp.result.kind = "Uncommitted"
               /\ resp.result.seq = kept
               /\ Len(resp.result.transitions) = Len(kept)
               /\ \A i \in 1..Len(kept) :
                    resp.result.transitions[i] = [report_id |-> kept[i], var |-> "Continued"]

\* C32 witness: of two reports the Helper failed the first and continued
\* the second, and the Leader goes on with the second alone.
C32_Witness ==
    /\ resp.pc = "done"
    /\ Len(resp.seq) = 2 /\ Len(resp.transitions) = 2
    /\ \A i \in 1..2 : resp.transitions[i].report_id = resp.seq[i]
    /\ resp.transitions[1].var = "Failed" /\ resp.transitions[2].var = "Continued"
    /\ resp.result.kind = "Uncommitted"
    /\ resp.result.seq = <<resp.seq[2]>>

\* ------------------------------ specification: handle_final_agg_job_resp

\* The loop of handle_final_agg_job_resp over the zipped transitions and the
\* uncommitted output shares, from position i, with the report ids added to
\* the aggregate share span so far.
RECURSIVE handle_final_agg_job_resp_loop(_, _, _, _)
handle_final_agg_job_resp_loop(uncommitted_seq, transitions, i, agg_share_span) ==
    IF i > Len(transitions) \/ i > Len(uncommitted_seq)
    THEN [NoResult EXCEPT !.kind = "Span", !.seq = agg_share_span]
    ELSE LET helper_transition == transitions[i]
             leader_report_id == uncommitted_seq[i]
         IN IF helper_transition.report_id # leader_report_id THEN AbortUnrecognizedMessage
            ELSE IF helper_transition.var \in {"Continued", "ContinuedInvalid"}
            THEN AbortUnrecognizedMessage
            ELSE IF helper_transition.var = "Failed"
            THEN handle_final_agg_job_resp_loop(uncommitted_seq, transitions, i + 1,
                    agg_share_span)
            ELSE handle_final_agg_job_resp_loop(uncommitted_seq, transitions, i + 1,
                    Append(agg_share_span, leader_report_id))

handle_final_agg_job_resp_zip(uncommitted_seq, transitions) ==
    handle_final_agg_job_resp_loop(uncommitted_seq, transitions, 1, <<>>)

handle_final_agg_job_resp_keep_failed(uncommitted_seq, transitions) ==
    IF Len(transitions) # Len(uncommitted_seq) THEN AbortUnrecognizedMessage
    ELSE IF \E i \in 1..Len(transitions) :
                \/ transitions[i].report_id # uncommitted_seq[i]
                \/ transitions[i].var \in {"Continued", "ContinuedInvalid"}
    THEN AbortUnrecognizedMessage
    ELSE [NoResult EXCEPT !.kind = "Span", !.seq = uncommitted_seq]

handle_final_agg_job_resp(uncommitted_seq, transitions) ==
    IF Len(transitions) # Len(uncommitted_seq) THEN AbortUnrecognizedMessage
    ELSE handle_final_agg_job_resp_loop(uncommitted_seq, transitions, 1, <<>>)

\* The Leader handles the Helper's response to its AggregationJobContinueReq.
FinalHandle ==
    /\ resp.pc = "start"
    /\ resp' = [resp EXCEPT !.pc = "done",
            !.result = handle_final_agg_job_resp(resp.seq, resp.transitions)]
    /\ UNCHANGED <<storageVars, doLog, job, ini, mock, leaderVars>>

InitFinal ==
    /\ StorageInit /\ DoIdle /\ JobIdle /\ IniIdle /\ MockIdle /\ LeaderIdle
    /\ resp \in [pc : {"start"}, seq : LeaderSeqs,
                 transitions : SeqsUpTo(Transitions, MaxReqLen),
                 version : Versions, result : {NoResult}]

NextFinal == FinalHandle

SpecFinal == InitFinal /\ [][NextFinal]_vars

\* C11: handle_final_agg_job_resp aborts with UnrecognizedMessage and returns
\* no aggregate share span when the number of transitions differs from the
\* length of the Uncommitted state, when a transition's report id differs from
\* the Leader's at the same position, or when a transition is Continued.
C11_FinalRespAborts ==
    LET n == IF Len(resp.transitions) < Len(resp.seq) THEN Len(resp.transitions)
             ELSE Len(resp.seq)
    IN (/\ resp.pc = "done"
        /\ \/ Len(resp.transitions) # Len(resp.seq)
           \/ \E i \in 1..n : resp.transitions[i].report_id # resp.seq[i]
           \/ \E i \in 1..Len(resp.transitions) :
                resp.transitions[i].var \in {"Continued", "ContinuedInvalid"})
       => resp.result = AbortUnrecognizedMessage

\* C11 witness: a final response of the right length and order whose second
\* transition is Continued, after a Finished one, was aborted.
C11_Witness ==
    /\ resp.pc = "done"
    /\ Len(resp.transitions) = 2 /\ Len(resp.seq) = 2
    /\ \A i \in 1..2 : resp.transitions[i].report_id = resp.seq[i]
    /\ resp.transitions[1].var = "Finished"
    /\ resp.transitions[2].var = "Continued"
    /\ resp.result = AbortUnrecognizedMessage

RoundNone == [present |-> FALSE, value |-> 0]

RoundSome(r) == [present |-> TRUE, value |-> r]

\* AggregationJobContinueReq::decode_with_param: a Draft02 request has no
\* round field, a Draft07 request carries one.
DecodeRound(version, wire_round) ==
    IF version = "Draft02" THEN RoundNone ELSE RoundSome(wire_round)

\* The report ids the replay oracle of the Helper reports as aggregated.
ReplaySets == {{}, {1}}

AbortRoundMismatch == [NoResult EXCEPT !.kind = "Abort", !.abort = "RoundMismatch"]

FindHelperReportNext(state_seq, h, report_id) == IF h > Len(state_seq) THEN 0 ELSE h

\* helper_iter.by_ref().find(..): the position, from h on, of the first Helper
\* report with this id, or 0 when the iterator runs out.
RECURSIVE FindHelperReport(_, _, _)
FindHelperReport(state_seq, h, report_id) ==
    IF h > Len(state_seq) THEN 0
    ELSE IF state_seq[h] = report_id THEN h
    ELSE FindHelperReport(state_seq, h + 1, report_id)

\* The loop of handle_agg_job_cont_req over the Leader's transitions, from
\* position i, with the Helper iterator at position h, the set of Helper
\* reports passed over, the transitions pushed and the span built so far.
RECURSIVE handle_agg_job_cont_req_loop(_, _, _, _, _, _, _, _)
handle_agg_job_cont_req_loop(state_seq, is_replay, req, i, h, processed_ids, transitions, span) ==
    IF i > Len(req)
    THEN [NoResult EXCEPT !.kind = "Resp", !.transitions = transitions, !.seq = span]
    ELSE LET leader_transition == req[i]
             found == FindHelperReport(state_seq, h, leader_transition.report_id)
             last == IF found = 0 THEN Len(state_seq) ELSE found
             passed == processed_ids \cup {state_seq[k] : k \in h..last}
         IN IF leader_transition.report_id \notin Range(state_seq)
            THEN AbortUnrecognizedMessage
            ELSE IF leader_transition.report_id \in processed_ids
            THEN AbortUnrecognizedMessage
            ELSE IF found = 0
            THEN [NoResult EXCEPT !.kind = "Resp", !.transitions = transitions, !.seq = span]
            ELSE IF leader_transition.var \notin {"Continued", "ContinuedInvalid"}
            THEN AbortUnrecognizedMessage
            ELSE LET var == IF leader_transition.report_id \in is_replay
                            THEN "Failed_ReportReplayed"
                            ELSE IF leader_transition.var = "Continued"
                            THEN "Finished" ELSE "Failed_VdafPrepError"
                 IN handle_agg_job_cont_req_loop(state_seq, is_replay, req, i + 1,
                        found + 1, passed,
                        Append(transitions, [report_id |-> state_seq[found], var |-> var]),
                        IF var = "Finished" THEN Append(span, state_seq[found]) ELSE span)

handle_agg_job_cont_req_any_order(state_seq, is_replay, round, req) ==
    IF round.present /\ round.value = 0 THEN AbortUnrecognizedMessage
    ELSE IF round.present /\ round.value # 1 THEN AbortRoundMismatch
    ELSE IF \E i \in 1..Len(req) : \/ req[i].report_id \notin Range(state_seq)
                                   \/ req[i].var \notin {"Continued", "ContinuedInvalid"}
    THEN AbortUnrecognizedMessage
    ELSE [NoResult EXCEPT !.kind = "Resp",
            !.transitions = [i \in 1..Len(req) |->
                [report_id |-> req[i].report_id, var |-> "Finished"]],
            !.seq = [i \in 1..Len(req) |-> req[i].report_id]]

handle_agg_job_cont_req_no_replay_check(state_seq, is_replay, round, req) ==
    IF round.present /\ round.value = 0 THEN AbortUnrecognizedMessage
    ELSE IF round.present /\ round.value # 1 THEN AbortRoundMismatch
    ELSE handle_agg_job_cont_req_loop(state_seq, {}, req, 1, 1, {}, <<>>, <<>>)

handle_agg_job_cont_req_span_all(state_seq, is_replay, round, req) ==
    IF round.present /\ round.value = 0 THEN AbortUnrecognizedMessage
    ELSE IF round.present /\ round.value # 1 THEN AbortRoundMismatch
    ELSE LET looped == handle_agg_job_cont_req_loop(state_seq, is_replay, req, 1, 1, {},
                            <<>>, <<>>)
         IN IF looped.kind # "Resp" THEN looped
            ELSE [looped EXCEPT !.seq = [i \in 1..Len(looped.transitions) |->
                                            looped.transitions[i].report_id]]

\* handle_agg_job_cont_req: the round is checked first.
handle_agg_job_cont_req(state_seq, is_replay, round, req) ==
    IF round.present /\ round.value = 0 THEN AbortUnrecognizedMessage
    ELSE IF round.present /\ round.value # 1 THEN AbortRoundMismatch
    ELSE handle_agg_job_cont_req_loop(state_seq, is_replay, req, 1, 1, {}, <<>>, <<>>)

\* The Helper handles a decoded AggregationJobContinueReq.
ContHandle ==
    /\ resp.pc = "start"
    /\ resp' = [resp EXCEPT !.pc = "done",
            !.result = handle_agg_job_cont_req(resp.seq, resp.is_replay, resp.round,
                                               resp.transitions)]
    /\ UNCHANGED <<storageVars, doLog, job, ini, mock, leaderVars>>

InitCont ==
    /\ StorageInit /\ DoIdle /\ JobIdle /\ IniIdle /\ MockIdle /\ LeaderIdle
    /\ \E version \in Versions, wire_round \in 0..MaxRound :
        resp \in [pc : {"start"}, seq : LeaderSeqs,
                  transitions : SeqsUpTo(Transitions, MaxReqLen),
                  version : {version}, round : {DecodeRound(version, wire_round)},
                  is_replay : ReplaySets, result : {NoResult}]

NextCont == ContHandle

SpecCont == InitCont /\ [][NextCont]_vars

RoundIsValid == ~resp.round.present \/ resp.round.value = 1

ReqIds == [i \in 1..Len(resp.transitions) |-> resp.transitions[i].report_id]

\* C12: for a continue request with a valid round, handle_agg_job_cont_req
\* aborts with UnrecognizedMessage, with neither span nor response, when the
\* request has a report id that is not in the Helper state, has a report id
\* twice, lists report ids in an order other than the Helper state's, or has
\* a transition that is not Continued.
C12_ContReqAborts ==
    (/\ resp.pc = "done"
     /\ RoundIsValid
     /\ \/ \E i \in 1..Len(ReqIds) : ReqIds[i] \notin Range(resp.seq)
        \/ \E i, k \in 1..Len(ReqIds) : i # k /\ ReqIds[i] = ReqIds[k]
        \/ \E i, k \in 1..Len(ReqIds) : \E a, b \in 1..Len(resp.seq) :
                /\ i < k /\ ReqIds[i] = resp.seq[a] /\ ReqIds[k] = resp.seq[b] /\ b < a
        \/ \E i \in 1..Len(resp.transitions) :
                resp.transitions[i].var \notin {"Continued", "ContinuedInvalid"})
    => resp.result = AbortUnrecognizedMessage

\* C12 witness: a request with a valid round that lists two reports of the
\* Helper state, both Continued, in the reverse order, was aborted.
C12_Witness ==
    /\ resp.pc = "done"
    /\ RoundIsValid
    /\ Len(resp.seq) = 2 /\ Len(ReqIds) = 2
    /\ ReqIds[1] = resp.seq[2] /\ ReqIds[2] = resp.seq[1]
    /\ \A i \in 1..2 : resp.transitions[i].var = "Continued"
    /\ resp.result = AbortUnrecognizedMessage

\* C13: the round of a continue request is validated against the version:
\* absent for Draft02, equal to 1 for Draft07; every other value is answered
\* with RoundMismatch.
C13_RoundValidated ==
    resp.pc = "done" =>
        LET valid == IF resp.version = "Draft02" THEN ~resp.round.present
                     ELSE resp.round.present /\ resp.round.value = 1
        IN /\ ~valid => resp.result = AbortRoundMismatch
           /\ valid => resp.result # AbortRoundMismatch

\* C30: the response to an accepted continue request has exactly one
\* transition for each Leader transition, in the Leader's order and with the
\* same report id at each position; a report of the Helper state that the
\* request does not name gets no transition and no output share.
C30_PositionalCorrespondence ==
    (resp.pc = "done" /\ resp.result.kind = "Resp") =>
        /\ Len(resp.result.transitions) = Len(resp.transitions)
        /\ \A i \in 1..Len(resp.transitions) :
                resp.result.transitions[i].report_id = resp.transitions[i].report_id
        /\ \A k \in 1..Len(resp.seq) :
                (~\E i \in 1..Len(resp.transitions) :
                        resp.transitions[i].report_id = resp.seq[k])
                => /\ ~\E i \in 1..Len(resp.result.transitions) :
                            resp.result.transitions[i].report_id = resp.seq[k]
                   /\ resp.seq[k] \notin Range(resp.result.seq)

\* C30 witness: the Helper holds two reports, the request continues the
\* second only, and the response finishes exactly that one.
C30_Witness ==
    /\ resp.pc = "done" /\ resp.result.kind = "Resp"
    /\ Len(resp.seq) = 2 /\ Len(resp.transitions) = 1
    /\ resp.transitions[1].report_id = resp.seq[2]
    /\ resp.result.seq = <<resp.seq[2]>>
    /\ Len(resp.result.transitions) = 1
    /\ resp.result.transitions[1] = [report_id |-> resp.seq[2], var |-> "Finished"]

\* C34: for each report of an accepted continue request the Helper emits
\* Failed{ReportReplayed} if the replay oracle has the report id, otherwise
\* Finished if prep_finish succeeds, otherwise Failed{VdafPrepError}; a
\* report id is in the aggregate share span iff its transition is Finished.
C34_ContTransitions ==
    (resp.pc = "done" /\ resp.result.kind = "Resp") =>
        /\ \A i \in 1..Len(resp.result.transitions) :
            LET t == resp.result.transitions[i]
                leader_var == resp.transitions[i].var
            IN /\ t.var = IF t.report_id \in resp.is_replay THEN "Failed_ReportReplayed"
                          ELSE IF leader_var = "Continued" THEN "Finished"
                          ELSE "Failed_VdafPrepError"
               /\ t.report_id \in Range(resp.result.seq) <=> t.var = "Finished"
        /\ \A r \in Range(resp.result.seq) :
                \E i \in 1..Len(resp.result.transitions) :
                    resp.result.transitions[i] = [report_id |-> r, var |-> "Finished"]

\* C34 witness: of two continued reports the first is known to the replay
\* oracle and the second finishes; the span holds the second alone.
C34_Witness ==
    /\ resp.pc = "done" /\ resp.result.kind = "Resp"
    /\ Len(resp.result.transitions) = 2
    /\ resp.result.transitions[1].var = "Failed_ReportReplayed"
    /\ resp.result.transitions[2].var = "Finished"
    /\ resp.result.seq = <<resp.result.transitions[2].report_id>>

\* ------------------------------ specification: handle_agg_job_init_req

\* What HpkeDecrypter::hpke_decrypt answers for an encrypted input share: a
\* plaintext that decodes as a PlaintextInputShare or one that does not, one
\* of the two transition failures, or an error of the decrypter itself (such
\* as a storage failure), which is fatal.
HpkeOutcomes == {"Ok", "OkUndecodable", "HpkeUnknownConfigId", "HpkeDecryptError", "Fatal"}

consume_decrypt_first(version, expiration, id, time, hpke) ==
    LET consumed(kind) == [id |-> id, time |-> time, kind |-> kind]
    IN IF hpke \in {"HpkeUnknownConfigId", "HpkeDecryptError"} THEN consumed(hpke)
       ELSE IF hpke = "Fatal" THEN consumed("Err")
       ELSE IF time >= expiration THEN consumed("TaskExpired")
       ELSE IF version = "Draft02"
       THEN consumed(IF hpke = "Ok" THEN "Ready" ELSE "ReadyInvalid")
       ELSE IF hpke = "OkUndecodable" THEN consumed("UnrecognizedMessage")
       ELSE consumed("Ready")

\* EarlyReportStateConsumed::consume. The kind "Err" stands for Err(e), which
\* ends the whole job; "ReadyInvalid" is Ready with a payload that is not a
\* valid input share (in Draft02 the plaintext is taken as the payload as is).
consume(version, expiration, id, time, hpke) ==
    LET consumed(kind) == [id |-> id, time |-> time, kind |-> kind]
    IN IF time >= expiration THEN consumed("TaskExpired")
       ELSE IF hpke \in {"HpkeUnknownConfigId", "HpkeDecryptError"} THEN consumed(hpke)
       ELSE IF hpke = "Fatal" THEN consumed("Err")
       ELSE IF version = "Draft02"
       THEN consumed(IF hpke = "Ok" THEN "Ready" ELSE "ReadyInvalid")
       ELSE IF hpke = "OkUndecodable" THEN consumed("UnrecognizedMessage")
       ELSE consumed("Ready")

AbortFatal == [NoResult EXCEPT !.kind = "Abort", !.abort = "Fatal"]

\* A report share of an AggregationJobInitReq; its time is the report's.
ReportShares == [report_id : ReportIds, hpke : HpkeOutcomes]

InitReqContinueRetainAll(consumed_reports) ==
    [NoResult EXCEPT !.kind = "Continue",
        !.seq = [i \in 1..Len(consumed_reports) |-> consumed_reports[i].id],
        !.transitions = [i \in 1..Len(consumed_reports) |->
            [report_id |-> consumed_reports[i].id,
             var |-> IF Initialize(consumed_reports[i]) = "Ready" THEN "Continued"
                     ELSE Initialize(consumed_reports[i])]]]

\* The transitions and the Helper state built from the initialized reports.
InitReqContinue(consumed_reports) ==
    LET initialized == [i \in 1..Len(consumed_reports) |->
            [id |-> consumed_reports[i].id, state |-> Initialize(consumed_reports[i])]]
        ready == SelectSeq(initialized, LAMBDA x : x.state = "Ready")
    IN [NoResult EXCEPT !.kind = "Continue",
            !.seq = [i \in 1..Len(ready) |-> ready[i].id],
            !.transitions = [i \in 1..Len(initialized) |->
                [report_id |-> initialized[i].id,
                 var |-> IF initialized[i].state = "Ready" THEN "Continued"
                         ELSE initialized[i].state]]]

\* The first loop of handle_agg_job_init_req from position i: a report id seen
\* before aborts the request, then the share is consumed, and an error of
\* consume is returned at once.
RECURSIVE handle_agg_job_init_req_loop(_, _, _, _, _, _)
handle_agg_job_init_req_loop(version, expiration, report_shares, i, processed_ids, consumed_reports) ==
    IF i > Len(report_shares) THEN InitReqContinue(consumed_reports)
    ELSE LET report_share == report_shares[i]
             c == consume(version, expiration, report_share.report_id,
                          ReportTime(report_share.report_id), report_share.hpke)
         IN IF report_share.report_id \in processed_ids THEN AbortUnrecognizedMessage
            ELSE IF c.kind = "Err" THEN AbortFatal
            ELSE handle_agg_job_init_req_loop(version, expiration, report_shares, i + 1,
                    processed_ids \cup {report_share.report_id},
                    Append(consumed_reports, c))

handle_agg_job_init_req_no_dup_check(version, expiration, report_shares) ==
    LET consumed_reports == [i \in 1..Len(report_shares) |->
            consume(version, expiration, report_shares[i].report_id,
                    ReportTime(report_shares[i].report_id), report_shares[i].hpke)]
    IN IF \E i \in 1..Len(report_shares) : consumed_reports[i].kind = "Err"
       THEN AbortFatal ELSE InitReqContinue(consumed_reports)

handle_agg_job_init_req(version, expiration, report_shares) ==
    handle_agg_job_init_req_loop(version, expiration, report_shares, 1, {}, <<>>)

\* The Helper handles an AggregationJobInitReq.
InitReqHandle ==
    /\ resp.pc = "start"
    /\ resp' = [resp EXCEPT !.pc = "done",
            !.result = handle_agg_job_init_req(resp.version, resp.expiration,
                                               resp.report_shares)]
    /\ UNCHANGED <<storageVars, doLog, job, ini, mock, leaderVars>>

InitInitReq ==
    /\ StorageInit /\ DoIdle /\ JobIdle /\ IniIdle /\ MockIdle /\ LeaderIdle
    /\ resp \in [pc : {"start"}, version : Versions, expiration : 0..(MaxTime + 1),
                 report_shares : SeqsUpTo(ReportShares, MaxReqLen), result : {NoResult}]

NextInitReq == InitReqHandle

SpecInitReq == InitInitReq /\ [][NextInitReq]_vars

\* Some report id occurs twice in the request, the second time at position k.
SecondOccurrence(k) ==
    /\ k \in 1..Len(resp.report_shares)
    /\ \E i \in 1..(k - 1) : resp.report_shares[i].report_id = resp.report_shares[k].report_id

HasDuplicate == \E k \in 1..Len(resp.report_shares) : SecondOccurrence(k)

\* The decrypter fails on a share that handle_agg_job_init_req consumes before
\* it reaches the first repeated report id.
FatalBeforeDuplicate ==
    \E i \in 1..Len(resp.report_shares) :
        /\ \A k \in 1..i : ~SecondOccurrence(k)
        /\ consume(resp.version, resp.expiration, resp.report_shares[i].report_id,
                   ReportTime(resp.report_shares[i].report_id),
                   resp.report_shares[i].hpke).kind = "Err"

\* C14 as stated: handle_agg_job_init_req aborts with UnrecognizedMessage,
\* with no Helper state and no response, when two report shares of the init
\* request carry the same ReportId.
C14_DuplicateAborts ==
    (resp.pc = "done" /\ HasDuplicate) => resp.result = AbortUnrecognizedMessage

\* C14 amended: when two report shares of the init request carry the same
\* ReportId, handle_agg_job_init_req produces no Helper state and no response;
\* it aborts with UnrecognizedMessage unless the decrypter fails on a share
\* that comes before the second occurrence, in which case that error is
\* returned.
C14_DuplicateAbortsUnlessFatal ==
    (resp.pc = "done" /\ HasDuplicate) =>
        /\ resp.result.kind = "Abort"
        /\ resp.result.seq = <<>> /\ resp.result.transitions = <<>>
        /\ resp.result = IF FatalBeforeDuplicate THEN AbortFatal
                         ELSE AbortUnrecognizedMessage

\* C14 witness: a request of two shares of the same report, both decryptable
\* and not expired, was aborted with UnrecognizedMessage.
C14_Witness ==
    /\ resp.pc = "done"
    /\ Len(resp.report_shares) = 2
    /\ resp.report_shares[1].report_id = resp.report_shares[2].report_id
    /\ \A i \in 1..2 : resp.report_shares[i].hpke = "Ok"
    /\ ReportTime(resp.report_shares[1].report_id) < resp.expiration
    /\ resp.result = AbortUnrecognizedMessage

\* C35: for an init request with pairwise distinct report ids the response
\* has exactly one transition per report share, in request order and with
\* the same report ids, Continued for a report initialized Ready and Failed
\* with its failure for a Rejected one, and the Helper state retains exactly
\* the Ready reports, in request order. (An error of the decrypter itself
\* ends the request with that error.)
C35_InitRespPerShare ==
    (resp.pc = "done" /\ ~HasDuplicate) =>
        LET n == Len(resp.report_shares)
            consumed == [i \in 1..n |->
                consume(resp.version, resp.expiration, resp.report_shares[i].report_id,
                        ReportTime(resp.report_shares[i].report_id),
                        resp.report_shares[i].hpke)]
            ready == {i \in 1..n : Initialize(consumed[i]) = "Ready"}
        IN IF \E i \in 1..n : consumed[i].kind = "Err"
           THEN resp.result = AbortFatal
           ELSE /\ resp.result.kind = "Continue"
                /\ Len(resp.result.transitions) = n
                /\ \A i \in 1..n :
                    /\ resp.result.transitions[i].report_id = resp.report_shares[i].report_id
                    /\ resp.result.transitions[i].var =
                            IF i \in ready THEN "Continued" ELSE Initialize(consumed[i])
                    /\ i \notin ready => resp.result.transitions[i].var # "Continued"
                /\ resp.result.seq =
                        SelectSeq([i \in 1..n |-> resp.report_shares[i].report_id],
                                  LAMBDA r : \E i \in ready :
                                        resp.report_shares[i].report_id = r)

\* C35 witness: of two distinct report shares the first cannot be decrypted
\* and the second is Ready; the response has both transitions in order and
\* the Helper state retains the second report alone.
C35_Witness ==
    /\ resp.pc = "done" /\ resp.result.kind = "Continue"
    /\ Len(resp.report_shares) = 2
    /\ resp.report_shares[1].report_id # resp.report_shares[2].report_id
    /\ resp.report_shares[1].hpke = "HpkeDecryptError"
    /\ resp.result.transitions[1] =
            [report_id |-> resp.report_shares[1].report_id, var |-> "HpkeDecryptError"]
    /\ resp.result.transitions[2] =
            [report_id |-> resp.report_shares[2].report_id, var |-> "Continued"]
    /\ resp.result.seq = <<resp.report_shares[2].report_id>>

\* ------------------------------ specification: produce_agg_job_init_req

\* A report of the job as the Leader holds it: its id and what the decrypter
\* answers for its Leader share; its time is the report's.
Reports == [report_id : ReportIds, hpke : HpkeOutcomes]

\* The positions of the reports initialized Ready, in order.
ReadyPositions(consumed_reports) ==
    SelectSeq([i \in 1..Len(consumed_reports) |-> i],
              LAMBDA i : Initialize(consumed_reports[i]) = "Ready")

InitReqProduceZipAfterSkip(consumed_reports, helper_shares) ==
    LET ready == ReadyPositions(consumed_reports)
    IN IF ready = <<>> THEN [NoResult EXCEPT !.kind = "Skip"]
       ELSE [NoResult EXCEPT !.kind = "Continue",
                !.seq = [k \in 1..Len(ready) |-> consumed_reports[ready[k]].id],
                !.transitions = [k \in 1..Len(ready) |->
                    [report_id |-> consumed_reports[ready[k]].id, var |-> "ReportShare",
                     helper_share |-> helper_shares[k]]]]

\* The end of produce_agg_job_init_req: the initialized reports are zipped
\* with the Helper shares and the rejected ones are skipped; Skip if none is
\* left, else the Leader state (seq) and the report shares of the init
\* request (transitions), each with the Helper share of its position. A
\* Helper share is named by the report it came with.
InitReqProduce(consumed_reports, helper_shares) ==
    LET ready == ReadyPositions(consumed_reports)
    IN IF ready = <<>> THEN [NoResult EXCEPT !.kind = "Skip"]
       ELSE [NoResult EXCEPT !.kind = "Continue",
                !.seq = [k \in 1..Len(ready) |-> consumed_reports[ready[k]].id],
                !.transitions = [k \in 1..Len(ready) |->
                    [report_id |-> consumed_reports[ready[k]].id, var |-> "ReportShare",
                     helper_share |-> helper_shares[ready[k]]]]]

\* The first loop of produce_agg_job_init_req from position i: a report id
\* seen before is a fatal error, then the Leader share is consumed, and an
\* error of consume is returned at once.
RECURSIVE produce_agg_job_init_req_loop(_, _, _, _, _, _)
produce_agg_job_init_req_loop(version, expiration, reports, i, processed_ids, consumed_reports) ==
    IF i > Len(reports)
    THEN InitReqProduce(consumed_reports, [k \in 1..Len(reports) |-> reports[k].report_id])
    ELSE LET report == reports[i]
             c == consume(version, expiration, report.report_id,
                          ReportTime(report.report_id), report.hpke)
         IN IF report.report_id \in processed_ids THEN AbortFatal
            ELSE IF c.kind = "Err" THEN AbortFatal
            ELSE produce_agg_job_init_req_loop(version, expiration, reports, i + 1,
                    processed_ids \cup {report.report_id}, Append(consumed_reports, c))

produce_agg_job_init_req_no_dup_check(version, expiration, reports) ==
    LET consumed_reports == [i \in 1..Len(reports) |->
            consume(version, expiration, reports[i].report_id,
                    ReportTime(reports[i].report_id), reports[i].hpke)]
    IN IF \E i \in 1..Len(reports) : consumed_reports[i].kind = "Err"
       THEN AbortFatal
       ELSE InitReqProduce(consumed_reports, [k \in 1..Len(reports) |-> reports[k].report_id])

produce_agg_job_init_req(version, expiration, reports) ==
    produce_agg_job_init_req_loop(version, expiration, reports, 1, {}, <<>>)

\* The Leader produces the init request of a job.
ProduceHandle ==
    /\ resp.pc = "start"
    /\ resp' = [resp EXCEPT !.pc = "done",
            !.result = produce_agg_job_init_req(resp.version, resp.expiration, resp.reports)]
    /\ UNCHANGED <<storageVars, doLog, job, ini, mock, leaderVars>>

InitProduce ==
    /\ StorageInit /\ DoIdle /\ JobIdle /\ IniIdle /\ MockIdle /\ LeaderIdle
    /\ resp \in [pc : {"start"}, version : Versions, expiration : 0..(MaxTime + 1),
                 reports : SeqsUpTo(Reports, MaxReqLen), result : {NoResult}]

NextProduce == ProduceHandle

SpecProduce == InitProduce /\ [][NextProduce]_vars

\* C15: produce_agg_job_init_req fails with a fatal error, with neither a
\* Leader state nor an init request, when two reports of the job carry the
\* same ReportId; an init request it builds never has a ReportId twice.
C15_DuplicateIsFatal ==
    resp.pc = "done" =>
        /\ (\E i, k \in 1..Len(resp.reports) :
                i # k /\ resp.reports[i].report_id = resp.reports[k].report_id)
            => resp.result = AbortFatal
        /\ \A i, k \in 1..Len(resp.result.transitions) :
                i # k => resp.result.transitions[i].report_id
                            # resp.result.transitions[k].report_id

\* C15 witness: a job of two reports with the same id, both decryptable and
\* not expired, ended with the fatal error.
C15_Witness ==
    /\ resp.pc = "done"
    /\ Len(resp.reports) = 2
    /\ resp.reports[1].report_id = resp.reports[2].report_id
    /\ \A i \in 1..2 : resp.reports[i].hpke = "Ok"
    /\ ReportTime(resp.reports[1].report_id) < resp.expiration
    /\ resp.result = AbortFatal

\* C36: produce_agg_job_init_req sends the Helper exactly the reports that
\* the Leader initialized Ready, in the order of the input reports, each with
\* its own Helper share, and the Leader state lists the same reports position
\* by position; rejected reports are dropped without an abort, and with no
\* Ready report the result is Skip. (An error of the decrypter itself ends
\* the call with that error.)
C36_ProduceSendsReady ==
    (/\ resp.pc = "done"
     /\ \A i, k \in 1..Len(resp.reports) :
            i # k => resp.reports[i].report_id # resp.reports[k].report_id)
    => LET n == Len(resp.reports)
           consumed == [i \in 1..n |->
                consume(resp.version, resp.expiration, resp.reports[i].report_id,
                        ReportTime(resp.reports[i].report_id), resp.reports[i].hpke)]
           ready == SelectSeq([i \in 1..n |-> resp.reports[i].report_id],
                        LAMBDA r : \E i \in 1..n :
                            resp.reports[i].report_id = r /\ Initialize(consumed[i]) = "Ready")
       IN IF \E i \in 1..n : consumed[i].kind = "Err" THEN resp.result = AbortFatal
          ELSE IF ready = <<>> THEN resp.result.kind = "Skip"
          ELSE /\ resp.result.kind = "Continue"
               /\ resp.result.seq = ready
               /\ Len(resp.result.transitions) = Len(ready)
               /\ \A k \in 1..Len(ready) :
                    /\ resp.result.transitions[k].report_id = ready[k]
                    /\ resp.result.transitions[k].helper_share = ready[k]

\* C36 witness: of two reports the first is rejected and the second is
\* Ready; the init request carries the second alone, with its Helper share.
C36_Witness ==
    /\ resp.pc = "done" /\ resp.result.kind = "Continue"
    /\ Len(resp.reports) = 2
    /\ resp.reports[1].report_id # resp.reports[2].report_id
    /\ resp.reports[1].hpke = "HpkeDecryptError"
    /\ resp.result.seq = <<resp.reports[2].report_id>>
    /\ resp.result.transitions =
            <<[report_id |-> resp.reports[2].report_id, var |-> "ReportShare",
               helper_share |-> resp.reports[2].report_id]>>

\* ------------------------------ specification: consume

\* An Aggregator consumes one report share.
ConsumeHandle ==
    /\ resp.pc = "start"
    /\ resp' = [resp EXCEPT !.pc = "done",
            !.result = consume(resp.version, resp.expiration, resp.id, resp.time, resp.hpke)]
    /\ UNCHANGED <<storageVars, doLog, job, ini, mock, leaderVars>>

InitConsume ==
    /\ StorageInit /\ DoIdle /\ JobIdle /\ IniIdle /\ MockIdle /\ LeaderIdle
    /\ resp \in [pc : {"start"}, version : Versions, expiration : 0..(MaxTime + 1),
                 is_leader : BOOLEAN, id : ReportIds, time : 0..MaxTime,
                 hpke : HpkeOutcomes, result : {NoResult}]

NextConsume == ConsumeHandle

SpecConsume == InitConsume /\ [][NextConsume]_vars

\* C16: consume rejects with TaskExpired a report whose time is at or after
\* the expiration, whatever the ciphertext; otherwise with HpkeUnknownConfigId
\* or HpkeDecryptError when decryption reports that failure; otherwise, in
\* Draft07, with UnrecognizedMessage when the plaintext does not decode;
\* otherwise the report is Ready with the plaintext payload. An HPKE
\* decryption failure never makes consume return an error.
C16_ConsumeOrder ==
    resp.pc = "done" =>
        /\ resp.result.id = resp.id /\ resp.result.time = resp.time
        /\ resp.hpke \in {"HpkeUnknownConfigId", "HpkeDecryptError"}
            => resp.result.kind # "Err"
        /\ IF resp.time >= resp.expiration THEN resp.result.kind = "TaskExpired"
           ELSE IF resp.hpke \in {"HpkeUnknownConfigId", "HpkeDecryptError"}
           THEN resp.result.kind = resp.hpke
           ELSE IF resp.hpke = "Fatal" THEN resp.result.kind = "Err"
           ELSE IF resp.version = "Draft07" /\ resp.hpke = "OkUndecodable"
           THEN resp.result.kind = "UnrecognizedMessage"
           ELSE resp.result.kind = (IF resp.hpke = "Ok" THEN "Ready" ELSE "ReadyInvalid")

\* C16 witness: an expired report whose ciphertext does not decrypt was
\* rejected with TaskExpired.
C16_Witness ==
    /\ resp.pc = "done"
    /\ resp.time >= resp.expiration
    /\ resp.hpke = "HpkeDecryptError"
    /\ resp.result.kind = "TaskExpired"

\* ------------------------------ specification: initialize

\* The states consume returns.
ConsumedStates ==
    {"Ready", "ReadyInvalid", "TaskExpired", "HpkeUnknownConfigId", "HpkeDecryptError",
     "UnrecognizedMessage"}

\* prio3_prep_init / prio2_prep_init on the input share of a Ready report.
prep_init(c) == IF c.kind = "Ready" THEN "Ready" ELSE "VdafPrepError"

initialize_prep_always(key_matches, c) ==
    IF ~key_matches
    THEN [id |-> c.id, time |-> c.time, state |-> "Err", prep_init |-> FALSE]
    ELSE [id |-> c.id, time |-> c.time, state |-> prep_init(c), prep_init |-> TRUE]

\* EarlyReportStateInitialized::initialize, with whether prep_init was run;
\* the state "Err" stands for the fatal error of a verify key that does not
\* match the VDAF configuration.
initialize(key_matches, c) ==
    IF c.kind \notin {"Ready", "ReadyInvalid"}
    THEN [id |-> c.id, time |-> c.time, state |-> c.kind, prep_init |-> FALSE]
    ELSE IF ~key_matches
    THEN [id |-> c.id, time |-> c.time, state |-> "Err", prep_init |-> FALSE]
    ELSE [id |-> c.id, time |-> c.time, state |-> prep_init(c), prep_init |-> TRUE]

\* A DapReportInitializer initializes one consumed report.
InitializeHandle ==
    /\ resp.pc = "start"
    /\ resp' = [resp EXCEPT !.pc = "done",
                            !.result = initialize(resp.key_matches, resp.consumed)]
    /\ UNCHANGED <<storageVars, doLog, job, ini, mock, leaderVars>>

InitInitializeOne ==
    /\ StorageInit /\ DoIdle /\ JobIdle /\ IniIdle /\ MockIdle /\ LeaderIdle
    /\ resp \in [pc : {"start"}, is_leader : BOOLEAN, key_matches : BOOLEAN,
                 consumed : [id : ReportIds, time : 0..MaxTime, kind : ConsumedStates],
                 result : {NoResult}]

NextInitializeOne == InitializeHandle

SpecInitializeOne == InitInitializeOne /\ [][NextInitializeOne]_vars

\* C17: initialize passes a Rejected consumed report through with the same
\* metadata and failure and without running prep_init; for a Ready report
\* whose prep_init runs it returns Ready when prep_init succeeds and
\* Rejected{VdafPrepError} when it fails, and does not fail the job.
C17_InitializePassThrough ==
    resp.pc = "done" =>
        LET c == resp.consumed
        IN /\ c.kind \notin {"Ready", "ReadyInvalid"} =>
                resp.result = [id |-> c.id, time |-> c.time, state |-> c.kind,
                               prep_init |-> FALSE]
           /\ (c.kind \in {"Ready", "ReadyInvalid"} /\ resp.key_matches) =>
                /\ resp.result.id = c.id /\ resp.result.time = c.time
                /\ resp.result.state = IF c.kind = "Ready" THEN "Ready" ELSE "VdafPrepError"
           /\ resp.result.prep_init => resp.result.state # "Err"

\* C17 witness: a report rejected by consume came out with the same failure,
\* and prep_init was not run.
C17_Witness ==
    /\ resp.pc = "done"
    /\ resp.consumed.kind = "HpkeDecryptError"
    /\ resp.result.state = "HpkeDecryptError"
    /\ ~resp.result.prep_init

\* ------------------------------ specification: handle_upload_req

\* What the checks made before the task configuration is used find: the media
\* type is not that of a Report, the payload does not decode as a Report, or
\* no task has the task id.
EarlyChecks == {"ok", "ContentType", "CodecError", "UnrecognizedTask"}

\* An upload request: the version and media type of the request, the decoded
\* report (id, time, number of encrypted input shares) and whether the Leader
\* has an HPKE configuration with the config id of the first share.
UploadReqs ==
    [version : Versions \cup {"Unknown"}, early : EarlyChecks, report_id : ReportIds,
     time : 0..MaxTime, num_shares : 0..MaxInputShares, can_decrypt : BOOLEAN]

UploadAbort(reason) == [NoResult EXCEPT !.kind = "Abort", !.abort = reason]

\* put_report on the store of pending reports: a failed request stores
\* nothing, a report id that is already stored is refused, and otherwise the
\* report is appended.
put_report(stored, report_id, put_ok) ==
    IF ~put_ok THEN [result |-> AbortFatal, pending |-> stored]
    ELSE IF report_id \in Range(stored)
    THEN [result |-> UploadAbort("ReportReplayed"), pending |-> stored]
    ELSE [result |-> [NoResult EXCEPT !.kind = "Ok"], pending |-> Append(stored, report_id)]

handle_upload_req_any_share_count(task_version, expiration, stored, req, put_ok) ==
    IF req.version = "Unknown" THEN [result |-> UploadAbort("VersionUnknown"), pending |-> stored]
    ELSE IF req.early # "ok" THEN [result |-> UploadAbort(req.early), pending |-> stored]
    ELSE IF task_version # req.version
    THEN [result |-> UploadAbort("VersionMismatch"), pending |-> stored]
    ELSE IF ~req.can_decrypt THEN [result |-> UploadAbort("ReportRejected"), pending |-> stored]
    ELSE IF req.time >= expiration
    THEN [result |-> UploadAbort("ReportTooLate"), pending |-> stored]
    ELSE put_report(stored, req.report_id, put_ok)

\* handle_upload_req: the checks in the order of the code, then put_report.
handle_upload_req(task_version, expiration, stored, req, put_ok) ==
    IF req.version = "Unknown" THEN [result |-> UploadAbort("VersionUnknown"), pending |-> stored]
    ELSE IF req.early # "ok" THEN [result |-> UploadAbort(req.early), pending |-> stored]
    ELSE IF task_version # req.version
    THEN [result |-> UploadAbort("VersionMismatch"), pending |-> stored]
    ELSE IF req.num_shares # 2 THEN [result |-> AbortUnrecognizedMessage, pending |-> stored]
    ELSE IF ~req.can_decrypt THEN [result |-> UploadAbort("ReportRejected"), pending |-> stored]
    ELSE IF req.time >= expiration
    THEN [result |-> UploadAbort("ReportTooLate"), pending |-> stored]
    ELSE put_report(stored, req.report_id, put_ok)

\* The Leader handles an upload request, with some reports already stored.
UploadHandle(put_ok) ==
    /\ resp.pc = "start"
    /\ LET out == handle_upload_req(resp.version, resp.expiration, pending, resp.req, put_ok)
       IN /\ pending' = out.pending
          /\ resp' = [resp EXCEPT !.pc = "done", !.result = out.result]
    /\ UNCHANGED <<storageVars, doLog, job, ini, mock, leader, collectJobs, helper>>

InitUpload ==
    /\ StorageInit /\ DoIdle /\ JobIdle /\ IniIdle /\ MockIdle
    /\ leader = NoLeader /\ collectJobs = <<>> /\ helper = [b \in Buckets |-> FALSE]
    /\ pending \in LeaderSeqs
    /\ resp \in [pc : {"start"}, version : Versions, expiration : 0..(MaxTime + 1),
                 req : UploadReqs, result : {NoResult}]

NextUpload == \E put_ok \in BOOLEAN : UploadHandle(put_ok)

SpecUpload == InitUpload /\ [][NextUpload]_vars

check_report(agg_store, store_processed, r) ==
    IF agg_store[BucketOf(r)].present /\ agg_store[BucketOf(r)].collected
    THEN "BatchCollected"
    ELSE IF r \in store_processed THEN "ReportReplayed"
    ELSE "None"

\* MockAggregator::put_report: a report that passes check_report is pushed on
\* the pending queue and the upload is acknowledged; resp.acked counts the
\* acknowledged uploads of each report id.
MockPutReport(r) ==
    /\ SumOver(resp.acked, ReportIds) < MaxUploads
    /\ LET failure == check_report(mock, resp.processed, r)
       IN IF failure # "None"
          THEN /\ resp' = [resp EXCEPT !.result = UploadAbort(failure)]
               /\ UNCHANGED pending
          ELSE /\ pending' = Append(pending, r)
               /\ resp' = [resp EXCEPT !.result = [NoResult EXCEPT !.kind = "Ok"],
                                       !.acked[r] = @ + 1]
    /\ UNCHANGED <<storageVars, doLog, job, ini, mock, leader, collectJobs, helper>>

\* MockAggregator::get_reports: up to agg_rate reports are drained from the
\* front of the pending queue.
MockGetReports ==
    /\ pending # <<>>
    /\ LET n == IF Len(pending) < AggRate THEN Len(pending) ELSE AggRate
       IN pending' = SubSeq(pending, n + 1, Len(pending))
    /\ UNCHANGED <<storageVars, doLog, job, ini, mock, leader, collectJobs, helper, resp>>

\* MockAggregator::mark_aggregated for one report share: the report id is
\* inserted in the processed set.
MockMarkAggregated(r) ==
    /\ r \notin resp.processed
    /\ resp' = [resp EXCEPT !.processed = @ \cup {r}]
    /\ UNCHANGED <<storageVars, doLog, job, ini, mock, pending, leader, collectJobs, helper>>

\* put_out_shares with the output share of one report, once per report.
MockPutOutShare(r) ==
    /\ mock[BucketOf(r)].agg_share[r] = 0
    /\ mock' = PutOutShares(mock, {r})
    /\ UNCHANGED <<storageVars, doLog, job, ini, leaderVars, resp>>

InitReportStore ==
    /\ StorageInit /\ DoIdle /\ JobIdle /\ IniIdle /\ MockIdle /\ LeaderIdle
    /\ resp = [pc |-> "done", processed |-> {}, acked |-> [r \in ReportIds |-> 0],
               result |-> NoResult]

NextReportStore ==
    \/ \E r \in ReportIds : MockPutReport(r)
    \/ MockGetReports
    \/ \E r \in ReportIds : MockMarkAggregated(r)
    \/ \E r \in ReportIds : MockPutOutShare(r)
    \/ \E interval \in BatchIntervals : MockMarkCollected(interval)

SpecReportStore == InitReportStore /\ [][NextReportStore]_vars

\* C21: no two acknowledged uploads of the task carry the same ReportId: once
\* put_report has accepted a report, a later put_report of the same id is
\* refused, also while the first report is still pending.
C21_AckedIdsUnique == \A r \in ReportIds : resp.acked[r] <= 1

\* ------------------------------ specification: message codec

\* Encoded messages are sequences of tokens (natural numbers): a fixed-width
\* field (an id, an integer, a tag) is one token, and a length prefix counts
\* the tokens that follow it.

\* The payloads of Continued transitions and the failures of Failed ones that
\* messages are built from; the payload tokens include the tag values.
PayloadSamples == {<<>>, <<0>>, <<2>>, <<1, 0>>}

FailureSamples == {0, 2, 9}

\* TransitionVar
WireVars ==
    [tag : {"Continued"}, payload : PayloadSamples, failure : {0}]
        \cup [tag : {"Finished"}, payload : {<<>>}, failure : {0}]
        \cup [tag : {"Failed"}, payload : {<<>>}, failure : FailureSamples]

\* Transition
WireTransitions == [report_id : ReportIds, var : WireVars]

\* TransitionVar::encode
EncodeTransitionVar(var) ==
    CASE var.tag = "Continued" -> <<0, Len(var.payload)>> \o var.payload
      [] var.tag = "Finished" -> <<1>>
      [] var.tag = "Failed" -> <<2, var.failure>>

\* Transition::encode
EncodeTransition(t) == <<t.report_id>> \o EncodeTransitionVar(t.var)

\* encode_u32_items over transitions: the length of the encoded items, then
\* the items.
RECURSIVE EncodeTransitionItems(_)
EncodeTransitionItems(transitions) ==
    IF transitions = <<>> THEN <<>>
    ELSE EncodeTransition(Head(transitions)) \o EncodeTransitionItems(Tail(transitions))

EncodeTransitions(transitions) ==
    LET items == EncodeTransitionItems(transitions) IN <<Len(items)>> \o items

\* Transition::decode at the front of the tokens: TransitionVar::decode
\* rejects an unknown tag, TransitionFailure::try_from an unknown failure, and
\* a field that runs past the end is an error.
DecodeTransition(bytes) ==
    LET err == [ok |-> FALSE, value |-> <<>>, rest |-> <<>>]
        rest(n) == SubSeq(bytes, n + 1, Len(bytes))
        tr(var, n) == [ok |-> TRUE, rest |-> rest(n),
                       value |-> [report_id |-> bytes[1], var |-> var]]
    IN IF Len(bytes) < 2 THEN err
       ELSE IF bytes[2] = 0
       THEN IF Len(bytes) < 3 \/ Len(bytes) < 3 + bytes[3] THEN err
            ELSE tr([tag |-> "Continued", payload |-> SubSeq(bytes, 4, 3 + bytes[3]),
                     failure |-> 0], 3 + bytes[3])
       ELSE IF bytes[2] = 1
       THEN tr([tag |-> "Finished", payload |-> <<>>, failure |-> 0], 2)
       ELSE IF bytes[2] = 2
       THEN IF Len(bytes) < 3 \/ bytes[3] \notin 0..9 THEN err
            ELSE tr([tag |-> "Failed", payload |-> <<>>, failure |-> bytes[3]], 3)
       ELSE err

\* The items of decode_u32_items: transitions are decoded until the tokens
\* of the list are used up.
RECURSIVE DecodeTransitionItems(_)
DecodeTransitionItems(bytes) ==
    IF bytes = <<>> THEN [ok |-> TRUE, value |-> <<>>]
    ELSE LET t == DecodeTransition(bytes)
             ts == DecodeTransitionItems(t.rest)
         IN IF ~t.ok \/ ~ts.ok THEN [ok |-> FALSE, value |-> <<>>]
            ELSE [ok |-> TRUE, value |-> <<t.value>> \o ts.value]

\* decode_u32_items over transitions at the front of the tokens, for a
\* message that ends with the list: tokens left over are an error.
DecodeTransitions(bytes) ==
    IF bytes = <<>> \/ Len(bytes) # 1 + bytes[1] THEN [ok |-> FALSE, value |-> <<>>]
    ELSE DecodeTransitionItems(Tail(bytes))

EncodeContinueReqNoLength(version, m) ==
    [kind |-> "Ok",
     bytes |-> (IF version = "Draft02"
                THEN <<m.draft02_task_id.value, m.draft02_agg_job_id.value>>
                ELSE <<m.round.value>>) \o EncodeTransitionItems(m.transitions)]

\* AggregationJobContinueReq::encode_with_param: a missing task id or job id
\* (Draft02) or round (Draft07) makes expect() panic.
EncodeContinueReq(version, m) ==
    IF version = "Draft02"
    THEN IF ~m.draft02_task_id.present \/ ~m.draft02_agg_job_id.present
         THEN [kind |-> "Panic", bytes |-> <<>>]
         ELSE [kind |-> "Ok",
               bytes |-> <<m.draft02_task_id.value, m.draft02_agg_job_id.value>>
                            \o EncodeTransitions(m.transitions)]
    ELSE IF ~m.round.present THEN [kind |-> "Panic", bytes |-> <<>>]
         ELSE [kind |-> "Ok", bytes |-> <<m.round.value>> \o EncodeTransitions(m.transitions)]

\* AggregationJobContinueReq::decode_with_param
DecodeContinueReq(version, bytes) ==
    LET n == IF version = "Draft02" THEN 2 ELSE 1
        ts == DecodeTransitions(SubSeq(bytes, n + 1, Len(bytes)))
    IN IF Len(bytes) < n \/ ~ts.ok THEN [ok |-> FALSE, value |-> <<>>]
       ELSE [ok |-> TRUE,
             value |-> [draft02_task_id |->
                            IF version = "Draft02" THEN RoundSome(bytes[1]) ELSE RoundNone,
                        draft02_agg_job_id |->
                            IF version = "Draft02" THEN RoundSome(bytes[2]) ELSE RoundNone,
                        round |-> DecodeRound(version, bytes[1]),
                        transitions |-> ts.value]]

\* The continue requests that are encoded; an Option field is absent or
\* holds a value.
ContinueReqs ==
    [draft02_task_id : {RoundNone, RoundSome(1)},
     draft02_agg_job_id : {RoundNone, RoundSome(2)},
     round : {RoundNone} \cup {RoundSome(r) : r \in 0..MaxRound},
     transitions : SeqsUpTo(WireTransitions, MaxReqLen)]

\* A continue request is encoded and the bytes are decoded, with the same
\* version; so is the AggregationJobResp with the same transitions.
CodecRoundTrip ==
    /\ resp.pc = "start"
    /\ LET enc == EncodeContinueReq(resp.version, resp.m)
       IN resp' = [resp EXCEPT !.pc = "done", !.enc = enc,
                !.dec = IF enc.kind = "Ok" THEN DecodeContinueReq(resp.version, enc.bytes)
                        ELSE [ok |-> FALSE, value |-> <<>>],
                !.dec_resp = DecodeTransitions(EncodeTransitions(resp.m.transitions))]
    /\ UNCHANGED <<storageVars, doLog, job, ini, mock, leaderVars>>

InitCodec ==
    /\ StorageInit /\ DoIdle /\ JobIdle /\ IniIdle /\ MockIdle /\ LeaderIdle
    /\ resp \in [pc : {"start"}, version : Versions, m : ContinueReqs,
                 enc : {[kind |-> "None", bytes |-> <<>>]},
                 dec : {[ok |-> FALSE, value |-> <<>>]},
                 dec_resp : {[ok |-> FALSE, value |-> <<>>]}]

NextCodec == CodecRoundTrip

SpecCodec == InitCodec /\ [][NextCodec]_vars

\* A continue request is well-formed for a version: task id and job id are
\* present in Draft02 only, the round in Draft07 only.
WellFormedContinueReq ==
    IF resp.version = "Draft02"
    THEN resp.m.draft02_task_id.present /\ resp.m.draft02_agg_job_id.present
            /\ ~resp.m.round.present
    ELSE ~resp.m.draft02_task_id.present /\ ~resp.m.draft02_agg_job_id.present
            /\ resp.m.round.present

ExtensionSamples == [typ : {EXTENSION_TASKPROV, 7}, payload : {<<>>, <<7>>}]

\* Extension::encode
EncodeExtension(e) == <<e.typ, Len(e.payload)>> \o e.payload

\* encode_u16_items over extensions
RECURSIVE EncodeExtensionItems(_)
EncodeExtensionItems(extensions) ==
    IF extensions = <<>> THEN <<>>
    ELSE EncodeExtension(Head(extensions)) \o EncodeExtensionItems(Tail(extensions))

EncodeExtensions(extensions) ==
    LET items == EncodeExtensionItems(extensions) IN <<Len(items)>> \o items

\* The items of decode_u16_items over extensions (Extension::decode); the
\* value "Truncated" stands for a field that runs past the end.
RECURSIVE DecodeExtensionItems(_)
DecodeExtensionItems(bytes) ==
    IF bytes = <<>> THEN [err |-> "None", value |-> <<>>]
    ELSE IF Len(bytes) < 2 \/ Len(bytes) < 2 + bytes[2]
    THEN [err |-> "Truncated", value |-> <<>>]
    ELSE LET e == [typ |-> bytes[1], payload |-> SubSeq(bytes, 3, 2 + bytes[2])]
             es == DecodeExtensionItems(SubSeq(bytes, 3 + bytes[2], Len(bytes)))
         IN IF es.err # "None" THEN es
            ELSE [err |-> "None", value |-> <<e>> \o es.value]

CheckExtensionsNoDuplicates(extensions) ==
    IF \E i \in 1..Len(extensions) : extensions[i].typ # EXTENSION_TASKPROV
    THEN "UnexpectedValue" ELSE "None"

\* "Check for duplicate extensions and unknown extensions": the loop of
\* ReportMetadata::decode_with_param and of PlaintextInputShare::decode.
CheckExtensions(extensions) ==
    IF \E i \in 1..Len(extensions) :
            \/ \E k \in 1..(i - 1) : extensions[k].typ = extensions[i].typ
            \/ extensions[i].typ # EXTENSION_TASKPROV
    THEN "UnexpectedValue" ELSE "None"

\* ReportMetadata::encode_with_param: the extensions are written for Draft02
\* only; for any other version a non-empty extension list panics.
EncodeReportMetadata(version, md) ==
    IF version = "Draft02"
    THEN [kind |-> "Ok", bytes |-> <<md.id, md.time>> \o EncodeExtensions(md.extensions)]
    ELSE IF md.extensions # <<>> THEN [kind |-> "Panic", bytes |-> <<>>]
    ELSE [kind |-> "Ok", bytes |-> <<md.id, md.time>>]

\* ReportMetadata::decode_with_param at the front of the tokens.
DecodeReportMetadata(version, bytes) ==
    LET none == [id |-> 0, time |-> 0, extensions |-> <<>>]
    IN IF Len(bytes) < 2 THEN [err |-> "Truncated", value |-> none]
       ELSE IF version # "Draft02"
       THEN [err |-> "None", value |-> [id |-> bytes[1], time |-> bytes[2], extensions |-> <<>>]]
       ELSE IF Len(bytes) < 3 \/ Len(bytes) < 3 + bytes[3]
       THEN [err |-> "Truncated", value |-> none]
       ELSE LET es == DecodeExtensionItems(SubSeq(bytes, 4, 3 + bytes[3]))
            IN IF es.err # "None" THEN [err |-> es.err, value |-> none]
               ELSE IF CheckExtensions(es.value) # "None"
               THEN [err |-> CheckExtensions(es.value), value |-> none]
               ELSE [err |-> "None",
                     value |-> [id |-> bytes[1], time |-> bytes[2], extensions |-> es.value]]

\* PlaintextInputShare::encode
EncodePlaintextInputShare(share) ==
    EncodeExtensions(share.extensions) \o <<Len(share.payload)>> \o share.payload

\* PlaintextInputShare::decode
DecodePlaintextInputShare(bytes) ==
    LET none == [extensions |-> <<>>, payload |-> <<>>]
        n == 1 + bytes[1]
    IN IF bytes = <<>> \/ Len(bytes) < n + 1 \/ Len(bytes) < n + 1 + bytes[n + 1]
       THEN [err |-> "Truncated", value |-> none]
       ELSE LET es == DecodeExtensionItems(SubSeq(bytes, 2, n))
            IN IF es.err # "None" THEN [err |-> es.err, value |-> none]
               ELSE IF CheckExtensions(es.value) # "None"
               THEN [err |-> CheckExtensions(es.value), value |-> none]
               ELSE [err |-> "None",
                     value |-> [extensions |-> es.value,
                                payload |-> SubSeq(bytes, n + 2, n + 1 + bytes[n + 1])]]

\* Query::encode_with_param, by the kind of the query: FixedSizeCurrentBatch
\* panics for Draft02.
EncodeQuery(version, query) ==
    IF query = "FixedSizeCurrentBatch" /\ version = "Draft02" THEN "Panic" ELSE "Ok"

\* The encoders and decoders are run on a message of each type: the metadata
\* and the continue request are encoded with the version of the call, and
\* the Draft02 encoding of the metadata and the encoding of the input share
\* are decoded. An unknown version is unreachable!() in the continue request.
VersionedCodec ==
    /\ resp.pc = "start"
    /\ LET md == [id |-> 1, time |-> 0, extensions |-> resp.extensions]
           share == [extensions |-> resp.extensions, payload |-> <<7>>]
           req == [draft02_task_id |-> RoundSome(1), draft02_agg_job_id |-> RoundSome(2),
                   round |-> resp.round, transitions |-> <<>>]
       IN resp' = [resp EXCEPT !.pc = "done",
            !.enc_metadata = EncodeReportMetadata(resp.version, md).kind,
            !.enc_query = EncodeQuery(resp.version, resp.query),
            !.enc_cont = IF resp.version = "Unknown" THEN "Panic"
                         ELSE EncodeContinueReq(resp.version, req).kind,
            !.dec_metadata = DecodeReportMetadata("Draft02",
                                EncodeReportMetadata("Draft02", md).bytes),
            !.dec_share = DecodePlaintextInputShare(EncodePlaintextInputShare(share))]
    /\ UNCHANGED <<storageVars, doLog, job, ini, mock, leaderVars>>

InitVersioned ==
    /\ StorageInit /\ DoIdle /\ JobIdle /\ IniIdle /\ MockIdle /\ LeaderIdle
    /\ resp \in [pc : {"start"}, version : Versions \cup {"Unknown"},
                 extensions : SeqsUpTo(ExtensionSamples, MaxExtensions),
                 query : {"TimeInterval", "FixedSizeByBatchId", "FixedSizeCurrentBatch"},
                 round : {RoundNone, RoundSome(1)},
                 enc_metadata : {"None"}, enc_query : {"None"}, enc_cont : {"None"},
                 dec_metadata : {[err |-> "None", value |-> <<>>]},
                 dec_share : {[err |-> "None", value |-> <<>>]}]

NextVersioned == VersionedCodec

SpecVersioned == InitVersioned /\ [][NextVersioned]_vars

\* C24: the codec never panics on a version mismatch: encoding
\* FixedSizeCurrentBatch with Draft02, a ReportMetadata with extensions with a
\* version other than Draft02, a continue request without round in Draft07,
\* or anything with an unknown version, is rejected with an error instead.
C24_NoPanicOnVersionMismatch ==
    resp.pc = "done" =>
        /\ resp.enc_query # "Panic"
        /\ resp.enc_metadata # "Panic"
        /\ resp.enc_cont # "Panic"

\* C25: decoding a Draft02 ReportMetadata or a PlaintextInputShare fails with
\* UnexpectedValue exactly when its extension list has two extensions of the
\* same type code or an extension of an unrecognized type, and otherwise
\* succeeds with the extensions that were encoded.
C25_ExtensionsChecked ==
    resp.pc = "done" =>
        LET bad == \/ \E i, k \in 1..Len(resp.extensions) :
                        i # k /\ resp.extensions[i].typ = resp.extensions[k].typ
                   \/ \E i \in 1..Len(resp.extensions) :
                        resp.extensions[i].typ # EXTENSION_TASKPROV
        IN IF bad
           THEN /\ resp.dec_metadata.err = "UnexpectedValue"
                /\ resp.dec_share.err = "UnexpectedValue"
           ELSE /\ resp.dec_metadata.err = "None"
                /\ resp.dec_metadata.value.extensions = resp.extensions
                /\ resp.dec_share.err = "None"
                /\ resp.dec_share.value.extensions = resp.extensions

\* C25 witness: a list of two Taskprov extensions was refused by both
\* decoders.
C25_Witness ==
    /\ resp.pc = "done"
    /\ Len(resp.extensions) = 2
    /\ \A i \in 1..2 : resp.extensions[i].typ = EXTENSION_TASKPROV
    /\ resp.dec_metadata.err = "UnexpectedValue"
    /\ resp.dec_share.err = "UnexpectedValue"

\* ------------------------------ specification: a request to a durable object

\* RETRY_DELAYS, in milliseconds.
RETRY_DELAYS == <<100, 500, 1000, 3000>>

\* What Stub::fetch_with_request and Response::json produce: a response with
\* a decodable body, a response whose body does not decode, or an error.
FetchOutcomes ==
    [kind : {"Ok"}, value : {1, 2}] \cup [kind : {"BadJson"}, value : {0}]
        \cup [kind : {"Err"}, value : {1, 2}]

DurableAttemptsAlways(retry) == Len(RETRY_DELAYS) + 1

\* let attempts = if self.retry { RETRY_DELAYS.len() + 1 } else { 1 };
DurableAttempts(retry) == IF retry THEN Len(RETRY_DELAYS) + 1 ELSE 1

\* One turn of the loop of durable_request up to the Delay: the request is
\* sent; a response returns at once (the handler is given attempt > 1), an
\* error returns when attempt = attempts and otherwise starts the delay
\* RETRY_DELAYS[attempt - 1]. The requests of get, post and post_by_id_hex
\* are always built: their method and data agree.
DurableFetch(outcome) ==
    /\ resp.pc = "fetch"
    /\ resp' = [resp EXCEPT
            !.outcomes = Append(@, outcome),
            !.pc = IF outcome.kind = "Err" /\ resp.attempt < DurableAttempts(resp.retry)
                   THEN "delay" ELSE "returned",
            !.result = IF outcome.kind = "Ok"
                       THEN [kind |-> "Ok", value |-> outcome.value, retried |-> resp.attempt > 1]
                       ELSE IF outcome.kind = "BadJson"
                       THEN [kind |-> "Err", value |-> 0, retried |-> FALSE]
                       ELSE IF resp.attempt < DurableAttempts(resp.retry) THEN @
                       ELSE [kind |-> "Err", value |-> outcome.value, retried |-> FALSE]]
    /\ UNCHANGED <<storageVars, doLog, job, ini, mock, leaderVars>>

\* Delay::from(RETRY_DELAYS[attempt - 1]).await; attempt += 1;
DurableDelay ==
    /\ resp.pc = "delay"
    /\ resp' = [resp EXCEPT !.pc = "fetch",
                            !.waited = Append(@, RETRY_DELAYS[resp.attempt]),
                            !.attempt = @ + 1]
    /\ UNCHANGED <<storageVars, doLog, job, ini, mock, leaderVars>>

InitDurable ==
    /\ StorageInit /\ DoIdle /\ JobIdle /\ IniIdle /\ MockIdle /\ LeaderIdle
    /\ resp \in [pc : {"fetch"}, retry : BOOLEAN, attempt : {1}, outcomes : {<<>>},
                 waited : {<<>>},
                 result : {[kind |-> "None", value |-> 0, retried |-> FALSE]}]

NextDurable == (\E outcome \in FetchOutcomes : DurableFetch(outcome)) \/ DurableDelay

\* The runtime resolves every fetch and every delay.
SpecDurable == InitDurable /\ [][NextDurable]_vars /\ WF_vars(NextDurable)

\* C26: a request to a durable object returns; without retry after exactly
\* one attempt, with retry after at most five, having waited 100, 500, 1000
\* and 3000 ms in this order before attempts two to five; a response ends the
\* request at the attempt that received it, and when every attempt failed
\* the error of the last one is returned.
C26_RequestTerminates ==
    /\ <>(resp.pc = "returned")
    /\ [](resp.pc = "returned" =>
            LET n == Len(resp.outcomes) IN
            /\ n >= 1
            /\ (~resp.retry => n = 1)
            /\ n <= 5
            /\ resp.waited = SubSeq(<<100, 500, 1000, 3000>>, 1, n - 1)
            /\ \A i \in 1..(n - 1) : resp.outcomes[i].kind = "Err"
            /\ resp.outcomes[n].kind = "Ok" =>
                    resp.result.kind = "Ok" /\ resp.result.value = resp.outcomes[n].value
            /\ resp.outcomes[n].kind = "Err" =>
                    /\ n = (IF resp.retry THEN 5 ELSE 1)
                    /\ resp.result.kind = "Err"
                    /\ resp.result.value = resp.outcomes[n].value)
    /\ [][resp.pc = "returned" => resp' = resp]_vars

\* C26 witness: with retry, five attempts failed and the fifth error was
\* returned after the four delays.
C26_Witness ==
    /\ resp.pc = "returned"
    /\ resp.retry
    /\ Len(resp.outcomes) = 5
    /\ resp.waited = <<100, 500, 1000, 3000>>
    /\ resp.result.kind = "Err"
    /\ resp.result.value = resp.outcomes[5].value

\* ------------------------------ specification: the requests of the aggregation writes

WriteCalls == {"try_put_agg_share_span", "mark_collected"}
WritePhases == {"mark_aggregated", "merge", "mark_collected"}

WriteRetryAlways(call) == TRUE

\* The connector of try_put_agg_share_span and of mark_collected is
\* self.durable(), without with_retry(): DurableConnector::new sets
\* retry: false.
WriteRetry(call) == FALSE

\* The phase after every request of a phase has been answered: the merges
\* follow the mark_aggregated requests when no report was replayed.
NextWritePhase(phase, replayed) ==
    IF phase = "mark_aggregated" /\ ~replayed THEN "merge" ELSE "returned"

\* One attempt of durable_request for the request to instance t of the
\* current phase: the instance handles the request or not, and the response
\* arrives (ok) or the attempt fails. A failed attempt is repeated while
\* attempt < attempts; after the last one the error ends try_join_all
\* (try_for_each for the merges) and with it the call.
WriteAttempt(t, handled, ok) ==
    /\ resp.pc = "requests"
    /\ t \in resp.pending
    /\ ok => handled
    /\ LET ph == resp.phase
           next == NextWritePhase(ph, resp.replayed)
       IN resp' = [resp EXCEPT
            !.sent[ph][t] = @ + 1,
            !.handled[ph][t] = IF handled THEN @ + 1 ELSE @,
            !.attempt[t] = IF ok THEN 1 ELSE @ + 1,
            !.pending = IF ok THEN IF resp.pending = {t} /\ next = "merge"
                                   THEN resp.merge_targets ELSE @ \ {t}
                        ELSE IF resp.attempt[t] < DurableAttempts(WriteRetry(resp.call))
                        THEN @ ELSE {},
            !.phase = IF ok /\ resp.pending = {t} /\ next = "merge" THEN "merge" ELSE @,
            !.pc = IF ok THEN IF resp.pending = {t} /\ next = "returned"
                              THEN "returned" ELSE @
                   ELSE IF resp.attempt[t] < DurableAttempts(WriteRetry(resp.call))
                   THEN @ ELSE "returned",
            !.result = IF ok THEN IF resp.pending = {t} /\ next = "returned"
                                  THEN "Ok" ELSE @
                       ELSE IF resp.attempt[t] < DurableAttempts(WriteRetry(resp.call))
                       THEN @ ELSE "Err"]
    /\ UNCHANGED <<storageVars, doLog, job, ini, mock, leaderVars>>

\* The call starts with its first requests issued: one mark_aggregated
\* request per ReportsProcessed instance of the span, or one mark_collected
\* request per bucket of the selector.
InitWrites ==
    /\ StorageInit /\ DoIdle /\ JobIdle /\ IniIdle /\ MockIdle /\ LeaderIdle
    /\ \E call \in WriteCalls, marks \in SUBSET Shards \ {{}},
          buckets \in SUBSET Buckets \ {{}}, replayed \in BOOLEAN :
        resp = [pc |-> "requests", call |-> call,
                phase |-> IF call = "mark_collected" THEN "mark_collected"
                          ELSE "mark_aggregated",
                pending |-> IF call = "mark_collected" THEN buckets ELSE marks,
                merge_targets |-> buckets,
                replayed |-> replayed,
                attempt |-> [t \in Shards \cup Buckets |-> 1],
                sent |-> [ph \in WritePhases |-> [t \in Shards \cup Buckets |-> 0]],
                handled |-> [ph \in WritePhases |-> [t \in Shards \cup Buckets |-> 0]],
                result |-> "None"]

NextWrites == \E t \in Shards \cup Buckets, handled, ok \in BOOLEAN : WriteAttempt(t, handled, ok)

SpecWrites == InitWrites /\ [][NextWrites]_vars

\* C27: within one call of try_put_agg_share_span or of mark_collected every
\* request (mark_aggregated, merge, mark_collected) is attempted at most once,
\* so no instance handles the request of one call twice: the delta of one
\* commit is merged into a bucket at most once.
C27_WritesNotRetried ==
    \A ph \in WritePhases, t \in Shards \cup Buckets :
        resp.sent[ph][t] <= 1 /\ resp.handled[ph][t] <= 1

\* C27 witness: a merge request of try_put_agg_share_span was handled by the
\* bucket's instance, its response was lost, and the call returned the
\* error after that single attempt.
C27_Witness ==
    /\ resp.pc = "returned" /\ resp.result = "Err"
    /\ resp.call = "try_put_agg_share_span" /\ resp.phase = "merge"
    /\ \E b \in Buckets : resp.sent["merge"][b] = 1 /\ resp.handled["merge"][b] = 1
    /\ \E b \in resp.merge_targets : resp.sent["merge"][b] = 0

\* ------------------------------ specification: DurableOrdered queue

\* The decimal digits of n, as format!("order/{next_ordinal}") writes them.
RECURSIVE Digits(_)
Digits(n) == IF n < 10 THEN <<n>> ELSE Append(Digits(n \div 10), n % 10)

\* Lexicographic order of strings: the first differing character decides,
\* and a proper prefix comes first.
RECURSIVE LexLess(_, _)
LexLess(a, b) ==
    IF b = <<>> THEN FALSE
    ELSE IF a = <<>> THEN TRUE
    ELSE IF Head(a) # Head(b) THEN Head(a) < Head(b)
    ELSE LexLess(Tail(a), Tail(b))

\* DurableOrdered::key without the part common to all keys of the queue,
\* "<prefix>/item/order/".
OrderedKey(ordinal) == Digits(ordinal)

\* Storage::list_with_options: the stored elements in lexicographic order of
\* their keys.
RECURSIVE ListKeys(_)
ListKeys(stored) ==
    IF stored = {} THEN <<>>
    ELSE LET first == CHOOSE o \in stored :
                        \A p \in stored \ {o} : LexLess(OrderedKey(o), OrderedKey(p))
         IN <<first>> \o ListKeys(stored \ {first})

\* get_front: the first min(limit, MAX_KEYS) listed elements; limit 0 stands
\* for None, which is get_all.
get_front(stored, limit) ==
    LET keys == ListKeys(stored)
        n == IF limit = 0 THEN Len(keys)
             ELSE IF limit < MAX_KEYS THEN limit ELSE MAX_KEYS
    IN SubSeq(keys, 1, IF n < Len(keys) THEN n ELSE Len(keys))

\* new_strictly_ordered followed by put: the element takes the counter's
\* value as its ordinal and the counter is incremented.
OrderedPut ==
    /\ resp.next_ordinal < MaxOrdinal
    /\ resp' = [resp EXCEPT !.stored = @ \cup {resp.next_ordinal},
                            !.next_ordinal = @ + 1,
                            !.front = <<>>]
    /\ UNCHANGED <<storageVars, doLog, job, ini, mock, leaderVars>>

\* DurableOrdered::delete
OrderedDelete(o) ==
    /\ o \in resp.stored
    /\ resp' = [resp EXCEPT !.stored = @ \ {o}, !.front = <<>>]
    /\ UNCHANGED <<storageVars, doLog, job, ini, mock, leaderVars>>

OrderedGetFront(limit) ==
    /\ resp.stored # {}
    /\ resp' = [resp EXCEPT !.front = get_front(resp.stored, limit)]
    /\ UNCHANGED <<storageVars, doLog, job, ini, mock, leaderVars>>

InitOrdered ==
    /\ StorageInit /\ DoIdle /\ JobIdle /\ IniIdle /\ MockIdle /\ LeaderIdle
    /\ resp = [next_ordinal |-> 0, stored |-> {}, front |-> <<>>]

NextOrdered ==
    \/ OrderedPut
    \/ \E o \in 0..(MaxOrdinal - 1) : OrderedDelete(o)
    \/ \E limit \in {0, 2} : OrderedGetFront(limit)

SpecOrdered == InitOrdered /\ [][NextOrdered]_vars

\* C29: get_front and get_all return the stored elements of a strictly
\* ordered queue in their order of creation, that is, by increasing ordinal.
C29_FrontInCreationOrder ==
    \A i, k \in 1..Len(resp.front) : i < k => resp.front[i] < resp.front[k]

\* ------------------------------ specification: handle_collect_job_req

NoQuery == [kind |-> "None", batch_id |-> 0]

\* Query::decode_with_param: a Draft02 fixed-size query has no subtype and
\* is always by batch id.
DecodeQuery(version, wire) ==
    IF wire.type = "time_interval"
    THEN [ok |-> TRUE, query |-> [kind |-> "TimeInterval", batch_id |-> 0]]
    ELSE IF wire.type = "fixed_size"
    THEN IF version = "Draft02" \/ wire.subtype = "by_batch_id"
         THEN [ok |-> TRUE, query |-> [kind |-> "FixedSizeByBatchId", batch_id |-> wire.batch_id]]
         ELSE IF wire.subtype = "current_batch"
         THEN [ok |-> TRUE, query |-> [kind |-> "FixedSizeCurrentBatch", batch_id |-> 0]]
         ELSE [ok |-> FALSE, query |-> NoQuery]
    ELSE [ok |-> FALSE, query |-> NoQuery]

\* TryFrom<Query> for BatchSelector
BatchSelectorTryFrom(query) ==
    IF query.kind = "FixedSizeCurrentBatch"
    THEN [ok |-> FALSE, batch_sel |-> NoQuery]
    ELSE [ok |-> TRUE, batch_sel |-> query]

CollectResult(kind, query) == [kind |-> kind, query |-> query]

\* The steps of handle_collect_job_req from the batch check on, with the
\* query that the collect request now holds.
handle_collect_job_req_tail(req, query) ==
    IF ~BatchSelectorTryFrom(query).ok THEN CollectResult("Fatal", NoQuery)
    ELSE IF ~req.check_batch_ok THEN CollectResult("BatchInvalid", NoQuery)
    ELSE IF req.version = "Draft07" /\ req.resource = "Undefined"
    THEN CollectResult("BadRequest", NoQuery)
    ELSE IF req.version = "Draft02" /\ req.resource = "CollectionJob"
    THEN CollectResult("Panic", NoQuery)
    ELSE IF ~req.init_ok THEN CollectResult("Fatal", NoQuery)
    ELSE CollectResult("Queued", query)

handle_collect_job_req_no_resolve(req) ==
    LET decoded == DecodeQuery(req.version, req.wire)
    IN IF req.version = "Unknown" THEN CollectResult("VersionUnknown", NoQuery)
       ELSE IF ~req.authorized THEN CollectResult("UnauthorizedRequest", NoQuery)
       ELSE IF ~decoded.ok THEN CollectResult("CodecError", NoQuery)
       ELSE IF req.task_version # req.version THEN CollectResult("VersionMismatch", NoQuery)
       ELSE handle_collect_job_req_tail(req, decoded.query)

\* handle_collect_job_req: the result, and for a queued collect job the
\* query handed to init_collect_job.
handle_collect_job_req(req) ==
    LET decoded == DecodeQuery(req.version, req.wire)
    IN IF req.version = "Unknown" THEN CollectResult("VersionUnknown", NoQuery)
       ELSE IF ~req.authorized THEN CollectResult("UnauthorizedRequest", NoQuery)
       ELSE IF ~decoded.ok THEN CollectResult("CodecError", NoQuery)
       ELSE IF req.task_version # req.version THEN CollectResult("VersionMismatch", NoQuery)
       ELSE IF decoded.query.kind = "FixedSizeCurrentBatch"
       THEN IF req.current_batch = 0 THEN CollectResult("Fatal", NoQuery)
            ELSE handle_collect_job_req_tail(req,
                    [kind |-> "FixedSizeByBatchId", batch_id |-> req.current_batch])
       ELSE handle_collect_job_req_tail(req, decoded.query)

CollectReqHandle ==
    /\ resp.pc = "start"
    /\ resp' = [resp EXCEPT !.pc = "done", !.result = handle_collect_job_req(resp.req)]
    /\ UNCHANGED <<storageVars, doLog, job, ini, mock, leaderVars>>

\* The request as it reaches the handler; current_batch 0 stands for an
\* error of current_batch().
InitCollectReq ==
    /\ StorageInit /\ DoIdle /\ JobIdle /\ IniIdle /\ MockIdle /\ LeaderIdle
    /\ resp \in [pc : {"start"},
                 req : [version : Versions \cup {"Unknown"}, task_version : Versions,
                        authorized : BOOLEAN,
                        wire : [type : {"time_interval", "fixed_size", "other"},
                                subtype : {"by_batch_id", "current_batch", "other"},
                                batch_id : {1, 2}],
                        current_batch : {0, 1, 2},
                        check_batch_ok : BOOLEAN,
                        resource : {"Undefined", "CollectionJob"},
                        init_ok : BOOLEAN],
                 result : {CollectResult("None", NoQuery)}]

NextCollectReq == CollectReqHandle

SpecCollectReq == InitCollectReq /\ [][NextCollectReq]_vars

\* C31: handle_collect_job_req never queues a collect job whose query is
\* FixedSizeCurrentBatch: such a query is replaced by FixedSizeByBatchId of
\* the task's current batch before the batch check and init_collect_job, so
\* the conversion to a BatchSelector in run_collect_job succeeds for every
\* queued collect job.
C31_QueuedQueryIsResolved ==
    resp.pc = "done" =>
        /\ resp.result.kind = "Queued" =>
             /\ resp.result.query.kind # "FixedSizeCurrentBatch"
             /\ BatchSelectorTryFrom(resp.result.query).ok
        /\ (/\ DecodeQuery(resp.req.version, resp.req.wire).ok
            /\ DecodeQuery(resp.req.version, resp.req.wire).query.kind = "FixedSizeCurrentBatch"
            /\ resp.req.version = "Draft07" /\ resp.req.task_version = "Draft07"
            /\ resp.req.authorized /\ resp.req.current_batch # 0
            /\ resp.req.check_batch_ok /\ resp.req.resource = "CollectionJob"
            /\ resp.req.init_ok)
           => resp.result = CollectResult("Queued",
                    [kind |-> "FixedSizeByBatchId", batch_id |-> resp.req.current_batch])

\* C31 witness: a Draft07 collect request for the current batch was queued
\* with the id of the task's current batch.
C31_Witness ==
    /\ resp.pc = "done"
    /\ resp.req.wire.type = "fixed_size" /\ resp.req.wire.subtype = "current_batch"
    /\ resp.req.current_batch = 2
    /\ resp.result = CollectResult("Queued", [kind |-> "FixedSizeByBatchId", batch_id |-> 2])

\* ------------------------------ specification: the interval of a Collection

\* DapTaskConfig::quantized_time_lower_bound: floor(t / p) * p.
quantized_time_lower_bound(time_precision, time) == time - (time % time_precision)

quantized_time_upper_bound_floor(time_precision, time) == time - (time % time_precision)

\* DapTaskConfig::quantized_time_upper_bound: ceil((t + 1) / p) * p.
quantized_time_upper_bound(time_precision, time) ==
    ((time + time_precision) \div time_precision) * time_precision

NoInterval == [present |-> FALSE, start |-> 0, duration |-> 0]

\* run_collect_job: the interval of the Collection, None for Draft02.
CollectionInterval(version, time_precision, min_time, max_time) ==
    IF version = "Draft02" THEN NoInterval
    ELSE LET low == quantized_time_lower_bound(time_precision, min_time)
             high == quantized_time_upper_bound(time_precision, max_time)
         IN [present |-> TRUE, start |-> low,
             duration |-> IF high > low THEN high - low ELSE time_precision]

CollectionIntervalHandle ==
    /\ resp.pc = "start"
    /\ resp' = [resp EXCEPT !.pc = "done",
            !.interval = CollectionInterval(resp.version, resp.time_precision,
                                            resp.min_time, resp.max_time)]
    /\ UNCHANGED <<storageVars, doLog, job, ini, mock, leaderVars>>

\* The Leader's aggregate share of a batch that is large enough: min_time
\* and max_time are the least and the greatest report time merged.
InitInterval ==
    /\ StorageInit /\ DoIdle /\ JobIdle /\ IniIdle /\ MockIdle /\ LeaderIdle
    /\ resp \in {r \in [pc : {"start"}, version : Versions, time_precision : 1..MaxPrecision,
                        min_time : 0..MaxBatchTime, max_time : 0..MaxBatchTime,
                        interval : {NoInterval}] : r.min_time <= r.max_time}

NextInterval == CollectionIntervalHandle

SpecInterval == InitInterval /\ [][NextInterval]_vars

\* C37: for a Draft07 task the interval of a completed Collection starts at
\* a multiple of time_precision that is at most the batch's min_time, its
\* duration is a positive multiple of time_precision, and its end is greater
\* than the batch's max_time; for Draft02 the Collection has no interval.
C37_IntervalCoversBatch ==
    resp.pc = "done" =>
        IF resp.version = "Draft02" THEN ~resp.interval.present
        ELSE /\ resp.interval.present
             /\ resp.interval.start % resp.time_precision = 0
             /\ resp.interval.start <= resp.min_time
             /\ resp.interval.duration % resp.time_precision = 0
             /\ resp.interval.duration >= resp.time_precision
             /\ resp.interval.start + resp.interval.duration > resp.max_time

\* C37 witness: a Draft07 batch whose reports lie in two different windows,
\* neither time on a window boundary, got an interval of two windows.
C37_Witness ==
    /\ resp.pc = "done" /\ resp.version = "Draft07"
    /\ resp.time_precision = 3 /\ resp.min_time = 1 /\ resp.max_time = 5
    /\ resp.interval = [present |-> TRUE, start |-> 0, duration |-> 6]

\* ------------------------------ specification: DaphneWorker::put_out_shares

\* put_out_shares with output shares of the given report ids: every
\* ReportsProcessed instance of the span handles its mark_aggregated request,
\* the responses are flattened into `replayed`, and each bucket merges the
\* aggregate share of its output shares that are not in `replayed`.
WorkerPutOutShares(out_shares) ==
    /\ out_shares # {}
    /\ \A r \in out_shares : aggShare[BucketOf(r)][r] < MaxShareCount
    /\ LET reqs == ReportsProcessedRequestData(out_shares)
           outs == [d \in DOMAIN reqs |-> MarkAggregated(processed[d], reqs[d])]
           replayed == UNION {Range(outs[d].resp) : d \in DOMAIN reqs}
           deltas == AggStoreRequestData(out_shares \ replayed)
       IN /\ processed' = [d \in Shards |->
                    IF d \in DOMAIN reqs THEN outs[d].stored ELSE processed[d]]
          /\ aggShare' = [b \in Buckets |->
                    IF b \in DOMAIN deltas THEN MergeShares(aggShare[b], deltas[b])
                    ELSE aggShare[b]]
          /\ resp' = [resp EXCEPT !.pc = "done", !.seq = SetToSeq(out_shares),
                                  !.result = [NoResult EXCEPT !.kind = "Replayed",
                                                              !.seq = SetToSeq(replayed)]]
    /\ UNCHANGED <<collected, doLog, job, ini, mock, leaderVars>>

InitPutOutShares ==
    /\ StorageInit /\ DoIdle /\ JobIdle /\ IniIdle /\ MockIdle /\ LeaderIdle /\ RespIdle

NextPutOutShares == \E out_shares \in SUBSET ReportIds : WorkerPutOutShares(out_shares)

SpecPutOutShares == InitPutOutShares /\ [][NextPutOutShares]_vars

\* C38: put_out_shares merges only output shares of report ids that were not
\* yet processed, and every report id whose output share it merges is
\* recorded as processed by that call, so that a later job with the same
\* report id is detected as a replay and no output share is merged twice.
C38_MergedIsProcessed ==
    \A r \in ReportIds :
        /\ aggShare[BucketOf(r)][r] > 0 => r \in processed[ShardOf(r)]
        /\ aggShare[BucketOf(r)][r] <= 1

\* ------------------------------ specification: ReportsProcessed initialize

\* The consumed reports of one initialize request: their ids are distinct
\* (the callers of initialize_reports refuse a repeated id) and all belong
\* to the instance.
InitializeRequests(d) ==
    {q \in SeqsUpTo(ConsumedReports, MaxReqLen) :
        /\ q # <<>>
        /\ \A i \in 1..Len(q) : ShardOf(q[i].id) = d
        /\ \A i, k \in 1..Len(q) : i # k => q[i].id # q[k].id}

HandleInitializeStoring(d, consumed_reports) ==
    /\ processed' = [processed EXCEPT ![d] = @ \cup
            {consumed_reports[i].id : i \in {k \in 1..Len(consumed_reports) :
                ConsumedIsReady(consumed_reports[k])}}]
    /\ resp' = [pc |-> "done", d |-> d, reports |-> consumed_reports,
                out |-> ReportsProcessedInitialize(processed[d], consumed_reports),
                again |-> resp.pc = "done" /\ resp.reports = consumed_reports]
    /\ UNCHANGED <<aggShare, collected, doLog, job, ini, mock, leaderVars>>

\* The DURABLE_REPORTS_PROCESSED_INITIALIZE handler of instance d: it reads
\* the storage and answers; `again` tells that the previous request handled
\* had the same reports.
HandleInitialize(d, consumed_reports) ==
    /\ resp' = [pc |-> "done", d |-> d, reports |-> consumed_reports,
                out |-> ReportsProcessedInitialize(processed[d], consumed_reports),
                again |-> resp.pc = "done" /\ resp.reports = consumed_reports]
    /\ UNCHANGED <<storageVars, doLog, job, ini, mock, leaderVars>>

InitDOInitialize ==
    /\ StorageInit /\ DoIdle /\ JobIdle /\ IniIdle /\ MockIdle /\ LeaderIdle
    /\ resp = [pc |-> "idle", d |-> 0, reports |-> <<>>, out |-> <<>>, again |-> FALSE]

NextDOInitialize ==
    \/ \E d \in Shards : \E consumed_reports \in InitializeRequests(d) :
            HandleInitialize(d, consumed_reports)
    \/ \E r \in ReportIds : IniEnvMarkAggregated(r)

SpecDOInitialize == InitDOInitialize /\ [][NextDOInitialize]_vars

\* C39: the initialize request of ReportsProcessed never changes the stored
\* set of processed report ids, rejects with ReportReplayed exactly the
\* Ready consumed reports whose ids are stored as processed, and leaves a
\* consumed report that is already Rejected with its failure.
C39_InitializeReadsOnly ==
    [][resp' # resp =>
        /\ processed' = processed
        /\ Len(resp'.out) = Len(resp'.reports)
        /\ \A i \in 1..Len(resp'.reports) :
            LET c == resp'.reports[i]
            IN /\ resp'.out[i].id = c.id
               /\ resp'.out[i].state = "ReportReplayed"
                    <=> (ConsumedIsReady(c) /\ c.id \in processed[resp'.d])
               /\ ~ConsumedIsReady(c) => resp'.out[i].state = c.kind]_vars

\* C39 witness: the same request was handled twice in a row, and its Ready
\* report, which is not stored as processed, came out Ready the second time
\* too, next to a Rejected report that kept its failure.
C39_Witness ==
    /\ resp.pc = "done" /\ resp.again
    /\ Len(resp.reports) = 2
    /\ resp.reports[1].kind = "Ready" /\ resp.out[1].state = "Ready"
    /\ resp.reports[1].id \notin processed[resp.d]
    /\ resp.reports[2].kind = "HpkeDecryptError" /\ resp.out[2].state = "HpkeDecryptError"

\* ------------------------------ specification: one aggregation job, both Aggregators

\* What becomes of one report of the job: the Helper fails it while handling
\* the AggregationJobInitReq, the Leader's prep_finish_from_shares fails, the
\* Helper finds it replayed while handling the AggregationJobContinueReq,
\* the Helper's prep_finish fails, or nothing fails.
ReportOutcomes == {"HelperFailed", "LeaderFailed", "Replayed", "HelperPrepFailed", "Ok"}

OutcomeOf(report_id) ==
    resp.outcome[CHOOSE i \in 1..Len(resp.seq) : resp.seq[i] = report_id]

\* DapHelperState::seq after the AggregationJobInitReq: the reports the
\* Helper answered with Continued, in the order of the request.
HelperStateSeq ==
    SelectSeq(resp.seq, LAMBDA r : OutcomeOf(r) # "HelperFailed")

\* The AggregationJobResp to the AggregationJobInitReq reaches the Leader as
\* the Helper sent it, one transition per report of the request.
JobInitResp ==
    /\ resp.pc = "init_resp"
    /\ LET transitions == [i \in 1..Len(resp.seq) |->
                [report_id |-> resp.seq[i],
                 var |-> IF resp.outcome[i] = "HelperFailed" THEN "Failed"
                         ELSE IF resp.outcome[i] = "LeaderFailed" THEN "ContinuedInvalid"
                         ELSE "Continued"]]
           res == handle_agg_job_resp(resp.seq, transitions, resp.version)
       IN resp' = [resp EXCEPT !.pc = IF res.kind = "Uncommitted" THEN "cont_req" ELSE "done",
                               !.leader = res]
    /\ UNCHANGED <<storageVars, doLog, job, ini, mock, leaderVars>>

\* The AggregationJobContinueReq reaches the Helper as the Leader sent it.
JobContReq ==
    /\ resp.pc = "cont_req"
    /\ LET req == [i \in 1..Len(resp.leader.transitions) |->
                [report_id |-> resp.leader.transitions[i].report_id,
                 var |-> IF OutcomeOf(resp.leader.transitions[i].report_id) = "HelperPrepFailed"
                         THEN "ContinuedInvalid" ELSE "Continued"]]
           round == IF resp.leader.round = "None" THEN RoundNone ELSE RoundSome(1)
           is_replay == {r \in Range(resp.seq) : OutcomeOf(r) = "Replayed"}
           res == handle_agg_job_cont_req(HelperStateSeq, is_replay, round, req)
       IN resp' = [resp EXCEPT !.pc = IF res.kind = "Resp" THEN "final_resp" ELSE "done",
                               !.helper = res]
    /\ UNCHANGED <<storageVars, doLog, job, ini, mock, leaderVars>>

\* The AggregationJobResp to the AggregationJobContinueReq reaches the Leader
\* as the Helper sent it: Finished, or Failed with the Helper's failure.
JobFinalResp ==
    /\ resp.pc = "final_resp"
    /\ LET transitions == [i \in 1..Len(resp.helper.transitions) |->
                [report_id |-> resp.helper.transitions[i].report_id,
                 var |-> IF resp.helper.transitions[i].var = "Finished"
                         THEN "Finished" ELSE "Failed"]]
       IN resp' = [resp EXCEPT !.pc = "done",
                !.final = handle_final_agg_job_resp(resp.leader.seq, transitions)]
    /\ UNCHANGED <<storageVars, doLog, job, ini, mock, leaderVars>>

InitJobRun ==
    /\ StorageInit /\ DoIdle /\ JobIdle /\ IniIdle /\ MockIdle /\ LeaderIdle
    /\ \E seq \in LeaderSeqs :
        resp \in [pc : {"init_resp"}, version : Versions, seq : {seq},
                  outcome : [1..Len(seq) -> ReportOutcomes],
                  leader : {NoResult}, helper : {NoResult}, final : {NoResult}]

NextJobRun == JobInitResp \/ JobContReq \/ JobFinalResp

SpecJobRun == InitJobRun /\ [][NextJobRun]_vars

\* The report ids of the Leader's final aggregate share span.
LeaderSpanIds == IF resp.final.kind = "Span" THEN Range(resp.final.seq) ELSE {}

\* The report ids of the Helper's aggregate share span.
HelperSpanIds == IF resp.helper.kind = "Resp" THEN Range(resp.helper.seq) ELSE {}

\* C40: in a run of one aggregation job whose messages are delivered as
\* sent, no Aggregator aborts, and a report id is in the Leader's final
\* aggregate share span exactly when it is in the Helper's aggregate share
\* span; both hold the reports that no step failed.
C40_SpansAgree ==
    resp.pc = "done" =>
        /\ resp.leader.kind # "Abort" /\ resp.helper.kind # "Abort"
        /\ resp.final.kind # "Abort"
        /\ LeaderSpanIds = HelperSpanIds
        /\ LeaderSpanIds = {r \in Range(resp.seq) : OutcomeOf(r) = "Ok"}

\* C40 witness: of two reports continued by both Aggregators the Helper
\* rejected the second while handling the continue request, and each span
\* holds the first alone.
C40_Witness ==
    /\ resp.pc = "done"
    /\ Len(resp.seq) = 2
    /\ resp.outcome[1] = "Ok"
    /\ resp.outcome[2] \in {"Replayed", "HelperPrepFailed"}
    /\ resp.final.kind = "Span" /\ resp.helper.kind = "Resp"
    /\ LeaderSpanIds = {resp.seq[1]}
    /\ HelperSpanIds = {resp.seq[1]}

====
